---- MODULE Spec2Model ----
(***************************************************************************)
(* SCHC compressor facade of the in-memory network (schc_compressor.rs):   *)
(* compress / try_learn_quic_cids / decompress over the shared tree, rule  *)
(* set and QUIC session, each behind its own readers-writer lock, and the  *)
(* synthetic Ethernet+IPv4+UDP framing.  The SCHC engine itself (the schc  *)
(* crate: parser, tree, compress_packet, decompress_packet, QuicSession)   *)
(* is modelled from the specification's component design (sections 4.x).   *)
(***************************************************************************)
EXTENDS Integers, Sequences, FiniteSets, TLC

\* ------------------------------------------------------------------------
\* Bits and bytes.  A byte is 0..255, a bit string is a sequence of 0/1,
\* MSB first within each octet and across octet boundaries.
\* ------------------------------------------------------------------------

\* bit i (zero based) of a byte sequence
Bit(bytes, i) == (bytes[(i \div 8) + 1] \div (2 ^ (7 - (i % 8)))) % 2

ReadBits(bytes, off, n) == [i \in 1..n |-> Bit(bytes, off + i - 1)]

\* the n-bit big-endian form of v (v below 2^30)
ValBits(v, n) ==
    [i \in 1..n |-> IF n - i > 30 THEN 0 ELSE (v \div (2 ^ (n - i))) % 2]

RECURSIVE BitsVal(_)
BitsVal(bits) ==
    IF bits = <<>> THEN 0
    ELSE 2 * BitsVal(SubSeq(bits, 1, Len(bits) - 1)) + bits[Len(bits)]

BitAt(bits, i) == IF i <= Len(bits) THEN bits[i] ELSE 0

\* bit string to bytes, zero padded in the final octet
PackBits(bits) ==
    [j \in 1..((Len(bits) + 7) \div 8) |->
        BitAt(bits, 8 * j - 7) * 128 + BitAt(bits, 8 * j - 6) * 64
      + BitAt(bits, 8 * j - 5) * 32  + BitAt(bits, 8 * j - 4) * 16
      + BitAt(bits, 8 * j - 3) * 8   + BitAt(bits, 8 * j - 2) * 4
      + BitAt(bits, 8 * j - 1) * 2   + BitAt(bits, 8 * j)]

BytesBits(bytes) == ReadBits(bytes, 0, 8 * Len(bytes))

U16Bytes(v) == << (v \div 256) % 256, v % 256 >>

Drop(s, n) == SubSeq(s, n + 1, Len(s))

Min(a, b) == IF a < b THEN a ELSE b

SatSub(a, b) == IF a > b THEN a - b ELSE 0

\* ------------------------------------------------------------------------
\* Synthetic Ethernet+IPv4+UDP framing (build_synthetic_packet)
\* ------------------------------------------------------------------------

BufferLen == 2000
EthLen == 14
IpHeaderLen == 20
UdpHeaderLen == 8

\* sum of the big-endian 16-bit words of a byte sequence (odd tail padded)
WordAt(bytes, w) ==
    bytes[2 * w - 1] * 256 + (IF 2 * w <= Len(bytes) THEN bytes[2 * w] ELSE 0)

\* the words lo..hi, summed by halves
RECURSIVE SumWordsIn(_, _, _)
SumWordsIn(bytes, lo, hi) ==
    IF lo > hi THEN 0
    ELSE IF lo = hi THEN WordAt(bytes, lo)
    ELSE SumWordsIn(bytes, lo, (lo + hi) \div 2)
         + SumWordsIn(bytes, (lo + hi) \div 2 + 1, hi)

SumWords(bytes) == SumWordsIn(bytes, 1, (Len(bytes) + 1) \div 2)

FoldCarry(s) ==
    LET s1 == (s % 65536) + (s \div 65536)
    IN  (s1 % 65536) + (s1 \div 65536)

\* one's complement checksum of the given bytes (checksum word taken as 0)
InetChecksum(sum) == 65535 - FoldCarry(sum)

UdpHeader(payload, src, dst, udp_len, cks) ==
    U16Bytes(src.port) \o U16Bytes(dst.port) \o U16Bytes(udp_len) \o U16Bytes(cks)

\* udp::ipv4_checksum over the writer's view: the pseudo header carries the
\* length of the whole working buffer the writer wraps
UdpChecksum(payload, src, dst, udp_len) ==
    InetChecksum(SumWords(src.ip) + SumWords(dst.ip) + 17 + BufferLen
                 + SumWords(UdpHeader(payload, src, dst, udp_len, 0))
                 + SumWords(payload))

Ipv4Header(src, dst, ip_len, cks) ==
    << 69, 0 >> \o U16Bytes(ip_len) \o << 0, 0 >> \o << 64, 0 >>
       \o << 64, 17 >> \o U16Bytes(cks) \o src.ip \o dst.ip

Ipv4Checksum(src, dst, ip_len) ==
    InetChecksum(SumWords(Ipv4Header(src, dst, ip_len, 0)))

\* panic!("SCHC compressor only supports IPv4"), and the slice copies of
\* the writers, which panic when the payload does not fit the buffer
SyntheticPanics(payload, src, dst) ==
    \/ ~src.v4
    \/ ~dst.v4
    \/ IpHeaderLen + UdpHeaderLen + Len(payload) > BufferLen

\* the framing with the two lengths computed in 8 bits
build_synthetic_packet_u8(payload, src, dst) ==
    LET udp_packet_length == (UdpHeaderLen + (Len(payload) % 256)) % 256
        ip_packet_length  == (IpHeaderLen + udp_packet_length) % 256
        udp == UdpHeader(payload, src, dst, udp_packet_length,
                         UdpChecksum(payload, src, dst, udp_packet_length))
        ip  == Ipv4Header(src, dst, ip_packet_length,
                          Ipv4Checksum(src, dst, ip_packet_length))
    IN  [i \in 1..(EthLen - 2) |-> 0] \o << 8, 0 >> \o ip \o udp \o payload

build_synthetic_packet(payload, src, dst) ==
    LET udp_packet_length == (UdpHeaderLen + (Len(payload) % 65536)) % 65536
        ip_packet_length  == (IpHeaderLen + udp_packet_length) % 65536
        udp == UdpHeader(payload, src, dst, udp_packet_length,
                         UdpChecksum(payload, src, dst, udp_packet_length))
        ip  == Ipv4Header(src, dst, ip_packet_length,
                          Ipv4Checksum(src, dst, ip_packet_length))
    IN  [i \in 1..(EthLen - 2) |-> 0] \o << 8, 0 >> \o ip \o udp \o payload

\* ---- SchcObserver::build_synthetic_packet, step by step on its working
\* buffer: the writers wrap the whole buffer and write in place

Take(s, n) == SubSeq(s, 1, n)

\* copy_from_slice of bytes into buf at byte offset off
Overwrite(buf, off, bytes) ==
    [i \in 1..Len(buf) |->
        IF i > off /\ i <= off + Len(bytes) THEN bytes[i - off] ELSE buf[i]]

\* let mut buffer = vec![0u8; 2000];
WorkingBuffer == [i \in 1..BufferLen |-> 0]

\* let udp_packet_length = 8 + quic_payload.len() as u16;
ObserverUdpLength(quic_payload) ==
    (UdpHeaderLen + (Len(quic_payload) % 65536)) % 65536

\* let ip_packet_length = 20 + udp_packet_length;
ObserverIpLength(udp_packet_length) == (IpHeaderLen + udp_packet_length) % 65536

\* set_source, set_destination, set_length, set_payload of the UDP writer
ObserverUdpWritten(buffer, quic_payload, src, dst, udp_packet_length) ==
    Overwrite(Overwrite(buffer, 0, U16Bytes(src.port) \o U16Bytes(dst.port)
                                      \o U16Bytes(udp_packet_length)),
              UdpHeaderLen, quic_payload)

\* udp::ipv4_checksum of the writer's view (the whole buffer, the checksum
\* word skipped) and set_checksum
ObserverUdpChecksummed(buffer, src, dst) ==
    Overwrite(buffer, 6,
        U16Bytes(InetChecksum(SumWords(src.ip) + SumWords(dst.ip) + 17 + Len(buffer)
                              + SumWords(Take(buffer, 6))
                              + SumWords(Drop(buffer, UdpHeaderLen)))))

\* the setters of the IPv4 writer up to set_payload: bytes 10 and 11 (the
\* checksum) keep what the buffer held
ObserverIpWritten(buffer, src, dst, ip_packet_length, udp_packet) ==
    Overwrite(Overwrite(Overwrite(buffer, 0,
                  << 4 * 16 + 5, 0 >> \o U16Bytes(ip_packet_length) \o << 0, 0 >>
                     \o << 2 * 32, 0 >> \o << 64, 17 >>),
                  12, src.ip \o dst.ip),
              IpHeaderLen, udp_packet)

\* ipv4::checksum over the header (the checksum word skipped) and set_checksum
ObserverIpChecksummed(buffer) ==
    Overwrite(buffer, 10,
        U16Bytes(InetChecksum(SumWords(Take(buffer, 10))
                              + SumWords(SubSeq(buffer, 13, IpHeaderLen)))))

\* let ip_packet = buffer[0..ip_packet_length as usize].to_vec();
ObserverIpPacket(buffer, src, dst, ip_packet_length, udp_packet) ==
    Take(ObserverIpChecksummed(
             ObserverIpWritten(buffer, src, dst, ip_packet_length, udp_packet)),
         ip_packet_length)

\* the buffer after the UDP block, udp_packet copied out of it, then the
\* IPv4 block on the same buffer
ObserverIpOverUdp(buffer, src, dst, udp_packet_length) ==
    ObserverIpPacket(buffer, src, dst, ObserverIpLength(udp_packet_length),
                     Take(buffer, udp_packet_length))

observer_build_synthetic_packet(quic_payload, src, dst) ==
    << 0, 0, 0, 0, 0, 0 >> \o << 0, 0, 0, 0, 0, 0 >> \o << 8, 0 >>
       \o ObserverIpOverUdp(
              ObserverUdpChecksummed(
                  ObserverUdpWritten(WorkingBuffer, quic_payload, src, dst,
                                     ObserverUdpLength(quic_payload)),
                  src, dst),
              src, dst, ObserverUdpLength(quic_payload))

\* ------------------------------------------------------------------------
\* Field parser (StreamingParser): named fields of a full Ethernet frame.
\* Offsets are bit offsets from the start of the frame.
\* ------------------------------------------------------------------------

QuicOff == 336

\* fixed fields: <<bit offset, bit width>>
FixedField ==
    [Ipv4Version        |-> << 112, 4 >>,  Ipv4Ihl            |-> << 116, 4 >>,
     Ipv4Dscp           |-> << 120, 6 >>,  Ipv4Ecn            |-> << 126, 2 >>,
     Ipv4TotalLength    |-> << 128, 16 >>, Ipv4Identification |-> << 144, 16 >>,
     Ipv4Flags          |-> << 160, 3 >>,  Ipv4FragmentOffset |-> << 163, 13 >>,
     Ipv4Ttl            |-> << 176, 8 >>,  Ipv4Protocol       |-> << 184, 8 >>,
     Ipv4Checksum       |-> << 192, 16 >>, Ipv4Src            |-> << 208, 32 >>,
     Ipv4Dst            |-> << 240, 32 >>, UdpSrcPort         |-> << 272, 16 >>,
     UdpDstPort         |-> << 288, 16 >>, UdpLength          |-> << 304, 16 >>,
     UdpChecksum        |-> << 320, 16 >>, QuicFirstByte      |-> << 336, 8 >>]

MaxCidLen == 20

ParseErr(e) == [ok |-> FALSE, err |-> e, off |-> 0, len |-> 0, val |-> << >>]

ParseAt(frame, off, len) ==
    IF off + len <= 8 * Len(frame)
    THEN [ok |-> TRUE, err |-> "", off |-> off, len |-> len,
          val |-> ReadBits(frame, off, len)]
    ELSE ParseErr("BufferUnderrun")

\* first byte bit 7 distinguishes long (1) from short (0) header
IsLongHeader(frame) == 8 * Len(frame) >= QuicOff + 8 /\ Bit(frame, QuicOff) = 1

\* value of an 8-bit length field at bit offset off (0 when out of range)
LenAt(frame, off) ==
    IF off + 8 <= 8 * Len(frame) THEN BitsVal(ReadBits(frame, off, 8)) ELSE 0

parse_field(frame, fid) ==
    IF fid \in DOMAIN FixedField
    THEN ParseAt(frame, FixedField[fid][1], FixedField[fid][2])
    ELSE IF 8 * Len(frame) < QuicOff + 8 THEN ParseErr("BufferUnderrun")
    ELSE IF ~IsLongHeader(frame)
    THEN IF fid = "QuicDcid" THEN ParseErr("ContextRequired")
         ELSE ParseErr("FieldAbsent")
    ELSE LET dl == LenAt(frame, QuicOff + 40)
             so == QuicOff + 48 + 8 * dl
             sl == LenAt(frame, so)
         IN  CASE fid = "QuicVersion" -> ParseAt(frame, QuicOff + 8, 32)
               [] fid = "QuicDcidLen" -> ParseAt(frame, QuicOff + 40, 8)
               [] fid = "QuicDcid" ->
                    IF dl > MaxCidLen THEN ParseErr("MalformedField")
                    ELSE ParseAt(frame, QuicOff + 48, 8 * dl)
               [] fid = "QuicScidLen" ->
                    IF dl > MaxCidLen THEN ParseErr("MalformedField")
                    ELSE ParseAt(frame, so, 8)
               [] fid = "QuicScid" ->
                    IF dl > MaxCidLen \/ sl > MaxCidLen
                    THEN ParseErr("MalformedField")
                    ELSE ParseAt(frame, so + 8, 8 * sl)
               [] OTHER -> ParseErr("FieldAbsent")

\* ------------------------------------------------------------------------
\* Rule model and decision tree
\* ------------------------------------------------------------------------

\* field descriptor: field id, direction applicability, target value (bits),
\* match operator (equal / ignore / msb with k leading bits), coding action
FD(fid, di, tv, mo, k, cda) ==
    [fid |-> fid, di |-> di, tv |-> tv, mo |-> mo, k |-> k, cda |-> cda]

Applies(fd, direction) == fd.di = "Bi" \/ fd.di = direction

QuicFieldIds == {"QuicVersion", "QuicDcidLen", "QuicDcid", "QuicScidLen", "QuicScid"}

\* StreamingParser::new and the parser cache: field id -> extracted field
StreamingParser(frame) ==
    [fid \in (DOMAIN FixedField) \cup QuicFieldIds |-> parse_field(frame, fid)]

Accepts(fd, pf) ==
    /\ pf.ok
    /\ CASE fd.mo = "equal"  -> pf.val = fd.tv
         [] fd.mo = "ignore" -> TRUE
         [] fd.mo = "msb"    -> /\ fd.k <= pf.len
                                /\ fd.k <= Len(fd.tv)
                                /\ SubSeq(pf.val, 1, fd.k) = SubSeq(fd.tv, 1, fd.k)
         [] OTHER -> FALSE

FieldsAccept(fields, parser, direction) ==
    \A i \in 1..Len(fields) :
        Applies(fields[i], direction) => Accepts(fields[i], parser[fields[i].fid])

CidFields == {"QuicDcidLen", "QuicDcid", "QuicScidLen", "QuicScid"}

Client == [v4 |-> TRUE, ip |-> << 10, 0, 0, 1 >>, port |-> 1000]
Server == [v4 |-> TRUE, ip |-> << 10, 0, 0, 2 >>, port |-> 2000]
ClientV6 == [v4 |-> FALSE, ip |-> << 0, 0, 0, 1 >>, port |-> 1000]

Eq(fid, di, tv) == FD(fid, di, tv, "equal", 0, "not-sent")
Ign(fid, di, cda) == FD(fid, di, << >>, "ignore", 0, cda)
Msb(fid, di, tv, k) == FD(fid, di, tv, "msb", k, "lsb")

\* IPv4+UDP descriptors in wire order, the client being the Up sender
IpUdpStack ==
    << Eq("Ipv4Version", "Bi", ValBits(4, 4)),
       Eq("Ipv4Ihl", "Bi", ValBits(5, 4)),
       Eq("Ipv4Dscp", "Bi", ValBits(0, 6)),
       Eq("Ipv4Ecn", "Bi", ValBits(0, 2)),
       Ign("Ipv4TotalLength", "Bi", "compute-length"),
       Eq("Ipv4Identification", "Bi", ValBits(0, 16)),
       Eq("Ipv4Flags", "Bi", ValBits(2, 3)),
       Eq("Ipv4FragmentOffset", "Bi", ValBits(0, 13)),
       Eq("Ipv4Ttl", "Bi", ValBits(64, 8)),
       Eq("Ipv4Protocol", "Bi", ValBits(17, 8)),
       Ign("Ipv4Checksum", "Bi", "compute-checksum"),
       Eq("Ipv4Src", "Up", BytesBits(Client.ip)),
       Eq("Ipv4Src", "Down", BytesBits(Server.ip)),
       Eq("Ipv4Dst", "Up", BytesBits(Server.ip)),
       Eq("Ipv4Dst", "Down", BytesBits(Client.ip)),
       Msb("UdpSrcPort", "Up", ValBits(Client.port, 16), 12),
       Eq("UdpSrcPort", "Down", ValBits(Server.port, 16)),
       Eq("UdpDstPort", "Up", ValBits(Server.port, 16)),
       Msb("UdpDstPort", "Down", ValBits(Client.port, 16), 12),
       Ign("UdpLength", "Bi", "compute-length"),
       Ign("UdpChecksum", "Bi", "compute-checksum") >>

\* long header: version 1, CIDs sent in the residue
LongQuic ==
    << Msb("QuicFirstByte", "Bi", ValBits(192, 8), 2),
       Eq("QuicVersion", "Bi", ValBits(1, 32)),
       Ign("QuicDcidLen", "Bi", "value-sent"),
       Ign("QuicDcid", "Bi", "value-sent"),
       Ign("QuicScidLen", "Bi", "value-sent"),
       Ign("QuicScid", "Bi", "value-sent") >>

\* short header: only the first byte is described
ShortQuic == << Msb("QuicFirstByte", "Bi", ValBits(64, 8), 2) >>

\* a rule that sends every field whole except the two ECN bits
VerboseStack ==
    << Ign("Ipv4Version", "Bi", "value-sent"),
       Ign("Ipv4Ihl", "Bi", "value-sent"),
       Ign("Ipv4Dscp", "Bi", "value-sent"),
       Eq("Ipv4Ecn", "Bi", ValBits(0, 2)),
       Ign("Ipv4TotalLength", "Bi", "value-sent"),
       Ign("Ipv4Identification", "Bi", "value-sent"),
       Ign("Ipv4Flags", "Bi", "value-sent"),
       Ign("Ipv4FragmentOffset", "Bi", "value-sent"),
       Ign("Ipv4Ttl", "Bi", "value-sent"),
       Ign("Ipv4Protocol", "Bi", "value-sent"),
       Ign("Ipv4Checksum", "Bi", "value-sent"),
       Ign("Ipv4Src", "Bi", "value-sent"),
       Ign("Ipv4Dst", "Bi", "value-sent"),
       Ign("UdpSrcPort", "Bi", "value-sent"),
       Ign("UdpDstPort", "Bi", "value-sent"),
       Ign("UdpLength", "Bi", "value-sent"),
       Ign("UdpChecksum", "Bi", "value-sent") >>

VerboseQuic == << Ign("QuicFirstByte", "Bi", "value-sent") >>

\* the field lists of the rule files
TemplateFields ==
    [long |-> IpUdpStack \o LongQuic, short |-> IpUdpStack \o ShortQuic,
     verbose |-> VerboseStack \o VerboseQuic]

\* A rule is held as (rule id, rule id length, the field list it was loaded
\* with, the CID pair pinned by the dynamic synthesis or << >>); Fields is
\* its ordered list of field descriptors.
PinFields(fields, pin) ==
    [i \in 1..Len(fields) |->
        IF fields[i].fid \in CidFields
        THEN [fields[i] EXCEPT
                 !.mo = "equal", !.k = 0, !.cda = "not-sent",
                 !.tv = CASE fields[i].fid = "QuicDcidLen" -> ValBits(Len(pin[1]), 8)
                          [] fields[i].fid = "QuicDcid"    -> BytesBits(pin[1])
                          [] fields[i].fid = "QuicScidLen" -> ValBits(Len(pin[2]), 8)
                          [] OTHER                         -> BytesBits(pin[2])]
        ELSE fields[i]]

Fields(r) ==
    IF r.pin = << >> THEN TemplateFields[r.tmpl]
    ELSE PinFields(TemplateFields[r.tmpl], r.pin)

\* tree specificity: count of non-ignore descriptors
Specificity(fields) == Cardinality({i \in 1..Len(fields) : fields[i].mo # "ignore"})

RuleKey(r) == << r.rule_id, r.rule_id_length >>

\* The tree is represented by its leaves; each leaf is annotated with the key
\* of its rule, the predicates on the path to it and its specificity rank.
build_tree(rules) ==
    { [rule_id |-> rules[i].rule_id, rule_id_length |-> rules[i].rule_id_length,
       tmpl |-> rules[i].tmpl, pin |-> rules[i].pin,
       rank |-> Specificity(Fields(rules[i]))]
      : i \in 1..Len(rules) }

LeafWins(l, m) ==
    \/ l.rank > m.rank
    \/ /\ l.rank = m.rank
       /\ \/ l.rule_id < m.rule_id
          \/ l.rule_id = m.rule_id /\ l.rule_id_length <= m.rule_id_length

NoLeaf == [rule_id |-> -1, rule_id_length |-> 0, tmpl |-> "", pin |-> << >>, rank |-> -1]

\* traversal: the matching leaf of greatest specificity, ties by smaller id
TreeMatch(tree, parser, direction) ==
    LET cand == {l \in tree : FieldsAccept(Fields(l), parser, direction)}
    IN  IF cand = {} THEN NoLeaf
        ELSE CHOOSE l \in cand : \A m \in cand : LeafWins(l, m)

FindRule(rules, id, len) ==
    LET idx == {i \in 1..Len(rules) :
                   rules[i].rule_id = id /\ rules[i].rule_id_length = len}
    IN  IF idx = {} THEN 0 ELSE CHOOSE i \in idx : \A j \in idx : i <= j

\* ------------------------------------------------------------------------
\* Compressor (compress_packet)
\* ------------------------------------------------------------------------

\* a residue that sends the whole field where only the low bits are due
ResidueWhole(fd, pf) ==
    CASE fd.cda = "value-sent" -> pf.val
      [] fd.cda = "lsb"        -> pf.val
      [] OTHER                 -> << >>

Residue(fd, pf) ==
    CASE fd.cda = "value-sent" -> pf.val
      [] fd.cda = "lsb"        -> SubSeq(pf.val, fd.k + 1, pf.len)
      [] OTHER                 -> << >>

\* residue bits and consumed field bits of the descriptors from i on
RECURSIVE Encode(_, _, _, _)
Encode(fields, parser, direction, i) ==
    IF i > Len(fields) THEN [ok |-> TRUE, bits |-> << >>, orig |-> 0]
    ELSE IF ~Applies(fields[i], direction)
    THEN Encode(fields, parser, direction, i + 1)
    ELSE LET pf   == parser[fields[i].fid]
             rest == Encode(fields, parser, direction, i + 1)
         IN  IF ~pf.ok \/ ~rest.ok
             THEN [ok |-> FALSE, bits |-> << >>, orig |-> 0]
             ELSE [ok |-> TRUE, bits |-> Residue(fields[i], pf) \o rest.bits,
                   orig |-> pf.len + rest.orig]

CompressErr(e) ==
    [ok |-> FALSE, err |-> e, rule_id |-> 0, rule_id_length |-> 0, data |-> << >>,
     original_header_bits |-> 0, compressed_header_bits |-> 0]

\* the compressed packet of a rule and its encoded residue
CompressRule(r, enc, bits) ==
    IF ~enc.ok THEN CompressErr("ParserError")
    ELSE [ok |-> TRUE, err |-> "", rule_id |-> r.rule_id,
          rule_id_length |-> r.rule_id_length,
          data |-> PackBits(bits),
          original_header_bits |-> enc.orig,
          compressed_header_bits |-> Len(bits)]

CompressEncoded(r, enc) ==
    CompressRule(r, enc, ValBits(r.rule_id, r.rule_id_length) \o enc.bits)

CompressLeaf(leaf, idx, parser, direction, rules) ==
    IF leaf = NoLeaf \/ idx = 0 THEN CompressErr("NoMatchingRule")
    ELSE CompressEncoded(rules[idx], Encode(Fields(rules[idx]), parser, direction, 1))

CompressMatched(leaf, parser, direction, rules) ==
    CompressLeaf(leaf, FindRule(rules, leaf.rule_id, leaf.rule_id_length),
                 parser, direction, rules)

compress_packet(tree, parser, direction, rules) ==
    CompressMatched(TreeMatch(tree, parser, direction), parser, direction, rules)

\* ------------------------------------------------------------------------
\* Decompressor (decompress_packet)
\* ------------------------------------------------------------------------

\* rule-id scan: the smallest L present in the rule set for which the first
\* L bits of the input are the id of a rule of that length
ScanRule(data, rules) ==
    LET fits == {i \in 1..Len(rules) :
                    /\ rules[i].rule_id_length <= 8 * Len(data)
                    /\ BitsVal(ReadBits(data, 0, rules[i].rule_id_length))
                           = rules[i].rule_id}
    IN  IF fits = {} THEN 0
        ELSE CHOOSE i \in fits : \A j \in fits :
                 \/ rules[i].rule_id_length < rules[j].rule_id_length
                 \/ rules[i].rule_id_length = rules[j].rule_id_length /\ i <= j

\* bit width of a field on reconstruction; CID widths come from the
\* already reconstructed length fields
FieldWidth(fd, dl, sl) ==
    CASE fd.fid \in DOMAIN FixedField -> FixedField[fd.fid][2]
      [] fd.fid = "QuicVersion" -> 32
      [] fd.fid = "QuicDcidLen" -> 8
      [] fd.fid = "QuicScidLen" -> 8
      [] fd.fid = "QuicDcid" -> IF dl >= 0 THEN 8 * dl ELSE Len(fd.tv)
      [] fd.fid = "QuicScid" -> IF sl >= 0 THEN 8 * sl ELSE Len(fd.tv)
      [] OTHER -> Len(fd.tv)

\* reconstruct the fields from i on; pos is the read position in the input,
\* dl / sl the reconstructed CID lengths (-1 while unknown)
RECURSIVE Decode(_, _, _, _, _, _, _)
Decode(fields, data, direction, i, pos, dl, sl) ==
    IF i > Len(fields) THEN [ok |-> TRUE, err |-> "", hdr |-> << >>, pos |-> pos]
    ELSE IF ~Applies(fields[i], direction)
    THEN Decode(fields, data, direction, i + 1, pos, dl, sl)
    ELSE LET fd == fields[i]
             w  == FieldWidth(fd, dl, sl)
             n  == CASE fd.cda = "value-sent" -> w
                     [] fd.cda = "lsb" -> SatSub(w, fd.k)
                     [] OTHER -> 0
             under == pos + n > 8 * Len(data)
             val == CASE fd.cda = "value-sent" -> ReadBits(data, pos, n)
                      [] fd.cda = "lsb" ->
                           SubSeq(fd.tv, 1, Min(fd.k, w)) \o ReadBits(data, pos, n)
                      [] fd.cda = "not-sent" -> fd.tv
                      [] OTHER -> [j \in 1..w |-> 0]
             ndl == IF fd.fid = "QuicDcidLen" THEN BitsVal(val) ELSE dl
             nsl == IF fd.fid = "QuicScidLen" THEN BitsVal(val) ELSE sl
         IN  IF under
             THEN [ok |-> FALSE, err |-> "ResidueUnderrun", hdr |-> << >>, pos |-> pos]
             ELSE LET rest == Decode(fields, data, direction, i + 1, pos + n, ndl, nsl)
                  IN  IF ~rest.ok THEN rest
                      ELSE [rest EXCEPT !.hdr = val \o rest.hdr]

HasAction(fields, direction, fid, cda) ==
    \E i \in 1..Len(fields) :
        Applies(fields[i], direction) /\ fields[i].fid = fid /\ fields[i].cda = cda

Patch(bytes, at, two) ==
    IF Len(bytes) >= at + 1
    THEN [bytes EXCEPT ![at] = two[1], ![at + 1] = two[2]]
    ELSE bytes

\* compute-length and compute-checksum fields, recomputed once all other
\* fields are known (no payload is handed to the decompressor)
Recompute(hdr, fields, direction) ==
    LET h1 == IF HasAction(fields, direction, "Ipv4TotalLength", "compute-length")
              THEN Patch(hdr, 3, U16Bytes(Len(hdr))) ELSE hdr
        h2 == IF HasAction(fields, direction, "UdpLength", "compute-length")
              THEN Patch(h1, 25, U16Bytes(SatSub(Len(hdr), IpHeaderLen))) ELSE h1
        h3 == IF HasAction(fields, direction, "UdpChecksum", "compute-checksum")
                 /\ Len(h2) >= IpHeaderLen + UdpHeaderLen
              THEN Patch(h2, 27,
                     U16Bytes(InetChecksum(SumWords(SubSeq(h2, 13, 20)) + 17
                        + SatSub(Len(h2), IpHeaderLen)
                        + SumWords(Drop(Patch(h2, 27, << 0, 0 >>), IpHeaderLen)))))
              ELSE h2
    IN  IF HasAction(fields, direction, "Ipv4Checksum", "compute-checksum")
           /\ Len(h3) >= IpHeaderLen
        THEN Patch(h3, 11,
               U16Bytes(InetChecksum(
                   SumWords(SubSeq(Patch(h3, 11, << 0, 0 >>), 1, IpHeaderLen)))))
        ELSE h3

DecompressErr(e) ==
    [ok |-> FALSE, err |-> e, rule_id |-> 0, full_data |-> << >>,
     header_data |-> << >>, bits_consumed |-> 0]

\* full_data is the reconstructed IPv4+UDP+QUIC header (the fields of the
\* rule, in wire order) followed by the payload handed in, here none
\* the reconstructed packet of a rule and its decoded residue
DecompressRule(r, dec, hdr) ==
    IF ~dec.ok THEN DecompressErr(dec.err)
    ELSE [ok |-> TRUE, err |-> "", rule_id |-> r.rule_id,
          full_data |-> hdr, header_data |-> hdr,
          bits_consumed |-> dec.pos]

DecompressDecoded(r, fields, dec, direction) ==
    DecompressRule(r, dec, Recompute(PackBits(dec.hdr), fields, direction))

DecompressFields(r, fields, data, direction) ==
    DecompressDecoded(r, fields,
                      Decode(fields, data, direction, 1, r.rule_id_length, -1, -1),
                      direction)

DecompressScanned(idx, data, rules, direction) ==
    IF idx = 0 THEN DecompressErr("NoMatchingRule")
    ELSE DecompressFields(rules[idx], Fields(rules[idx]), data, direction)

decompress_packet(data, rules, direction) ==
    DecompressScanned(ScanRule(data, rules), data, rules, direction)

\* ------------------------------------------------------------------------
\* Dynamic QUIC rule synthesis (QuicSession)
\* ------------------------------------------------------------------------

\* QuicSession::new(240, 250, 8, debug)
DynRuleStart == 240
DynRuleEnd == 250
DynRuleIdLength == 8

NoSession == [some |-> FALSE, pairs |-> << >>, next_id |-> 0, assigned |-> {}]

QuicSessionNew(first, last, len) ==
    [some |-> TRUE, pairs |-> << >>, next_id |-> first, assigned |-> {}]

\* the (DCID, SCID) pair cached in the parser; << >> when the packet has none
CidPair(parser) ==
    LET d == parser["QuicDcid"]
        c == parser["QuicScid"]
    IN  IF parser["QuicVersion"].ok /\ d.ok /\ c.ok
        THEN << PackBits(d.val), PackBits(c.val) >>
        ELSE << >>

\* clone of the base rule with the CID descriptors changed to equal /
\* not-sent on the observed values, under a rule id of the reserved pool
PinCids(base, pair, id, len) ==
    [rule_id |-> id, rule_id_length |-> len, tmpl |-> base.tmpl, pin |-> pair]

InternedPairs(session) == {session.pairs[i] : i \in 1..Len(session.pairs)}

\* a session that generates rules without interning the pair
update_from_packet_no_intern(session, parser, base) ==
    LET pair == CidPair(parser)
    IN  IF pair = << >> \/ base = << >> \/ session.next_id > DynRuleEnd
        THEN [generated |-> FALSE, session |-> session, new_rules |-> << >>]
        ELSE [generated |-> TRUE,
              session |-> [session EXCEPT
                             !.next_id = @ + 1,
                             !.assigned = @ \cup {<< pair, session.next_id >>}],
              new_rules |-> << PinCids(base[1], pair, session.next_id,
                                       DynRuleIdLength) >>]

\* a session that goes on past the last id of the pool
update_from_packet_past_end(session, parser, base) ==
    LET pair == CidPair(parser)
    IN  IF pair = << >> \/ pair \in InternedPairs(session)
        THEN [generated |-> FALSE, session |-> session, new_rules |-> << >>]
        ELSE IF base = << >>
             THEN [generated |-> FALSE,
                   session |-> [session EXCEPT !.pairs = Append(@, pair)],
                   new_rules |-> << >>]
             ELSE [generated |-> TRUE,
                   session |-> [session EXCEPT
                                  !.pairs = Append(@, pair),
                                  !.next_id = @ + 1,
                                  !.assigned = @ \cup {<< pair, session.next_id >>}],
                   new_rules |-> << PinCids(base[1], pair, session.next_id,
                                            DynRuleIdLength) >>]

\* a session that hands the same pool id to every new pair
update_from_packet_same_id(session, parser, base) ==
    LET pair == CidPair(parser)
    IN  IF pair = << >> \/ pair \in InternedPairs(session)
        THEN [generated |-> FALSE, session |-> session, new_rules |-> << >>]
        ELSE IF base = << >> \/ session.next_id > DynRuleEnd
             THEN [generated |-> FALSE,
                   session |-> [session EXCEPT !.pairs = Append(@, pair)],
                   new_rules |-> << >>]
             ELSE [generated |-> TRUE,
                   session |-> [session EXCEPT
                                  !.pairs = Append(@, pair),
                                  !.assigned = @ \cup {<< pair, session.next_id >>}],
                   new_rules |-> << PinCids(base[1], pair, session.next_id,
                                            DynRuleIdLength) >>]

\* update_from_packet followed by take_generated_rules: the session after the
\* call, whether rules were generated, and the generated rules.
\* base is the base rule, or << >> for None.
update_from_packet(session, parser, base) ==
    LET pair == CidPair(parser)
    IN  IF pair = << >> \/ pair \in InternedPairs(session)
        THEN [generated |-> FALSE, session |-> session, new_rules |-> << >>]
        ELSE LET interned == [session EXCEPT !.pairs = Append(@, pair)]
             IN  IF base = << >> \/ session.next_id > DynRuleEnd
                 THEN [generated |-> FALSE, session |-> interned, new_rules |-> << >>]
                 ELSE [generated |-> TRUE,
                       session |-> [interned EXCEPT
                                      !.next_id = @ + 1,
                                      !.assigned = @ \cup {<< pair, session.next_id >>}],
                       new_rules |-> << PinCids(base[1], pair, session.next_id,
                                                DynRuleIdLength) >>]

\* ------------------------------------------------------------------------
\* Rule files and traffic of the model
\* ------------------------------------------------------------------------

MkRule(id, len, tmpl) ==
    [rule_id |-> id, rule_id_length |-> len, tmpl |-> tmpl, pin |-> << >>]

\* RuleSet::from_file: the rule files the model loads
RuleSetFromFile(path) ==
    CASE path = "plain" ->
            << MkRule(1, 4, "long"), MkRule(2, 4, "short") >>
      [] path = "nibble" ->
            << MkRule(1, 4, "long"), MkRule(15, 4, "short") >>
      [] path = "reserved" ->
            << MkRule(240, 8, "long") >>
      [] path = "verbose" ->
            << MkRule(1, 16, "verbose") >>

\* QUIC payloads: long header with CID pair A, with CID pair B, short header
PayloadA == << 195, 0, 0, 0, 1, 2, 161, 162, 1, 177, 7, 9 >>
PayloadB == << 195, 0, 0, 0, 1, 2, 163, 164, 1, 178, 7, 9 >>
PayloadS == << 67, 5, 6 >>

\* ------------------------------------------------------------------------
\* The facade (SchcCompressor): state
\* ------------------------------------------------------------------------

NumThreads == 2
MaxCalls == 3

Threads == 1..NumThreads

VARIABLES
    rules_path,     \* the rule file the compressor was built from
    dynamic,        \* dynamic_quic_rules of from_files
    tree,           \* tree: RwLock<TreeNode>, the protected value
    rules,          \* rules: RwLock<Vec<Rule>>, the protected value
    quic_session,   \* quic_session: Option<RwLock<QuicSession>>, the value
    stats,          \* SchcCompressorStats
    tree_lock, rules_lock, session_lock,    \* the three RwLocks
    pc,             \* per thread: position in compress / try_learn / decompress
    arg,            \* per thread: the arguments of the call in progress
    res,            \* per thread: result and locals of the call in progress
    new_rules,      \* per thread: new_rules of try_learn_quic_cids
    new_tree,       \* per thread: new_tree of try_learn_quic_cids
    calls,          \* number of calls started
    note,           \* per thread: history notes of the call in progress
    hist,           \* history: generations, installations, outputs so far
    obs_tree,       \* SchcObserver.tree
    obs_rules,      \* SchcObserver.rules
    obs_stats,      \* SchcObserver.stats: SchcStats
    obs_pc,         \* per thread: position in observe
    obs_arg,        \* per thread: the arguments of the observe call in progress
    obs_res,        \* per thread: result of compress_packet in observe
    obs_calls       \* number of observe calls started

vars == << rules_path, dynamic, tree, rules, quic_session, stats, tree_lock,
           rules_lock, session_lock, pc, arg, res, new_rules, new_tree, calls, note, hist,
           obs_tree, obs_rules, obs_stats, obs_pc, obs_arg, obs_res, obs_calls >>

observer == << obs_tree, obs_rules, obs_stats, obs_pc, obs_arg, obs_res, obs_calls >>
facade == << rules_path, dynamic, tree, rules, quic_session, stats, tree_lock,
             rules_lock, session_lock, pc, arg, res, new_rules, new_tree, calls,
             note, hist >>

shared == << tree, rules, quic_session >>
locks == << tree_lock, rules_lock, session_lock >>
config == << rules_path, dynamic >>

\* ---- parking_lot::RwLock: a writer first takes the writer bit, which shuts
\* out new readers and other writers, then waits for the readers to leave
FreeLock == [readers |-> {}, writer |-> 0]

CanRead(l) == l.writer = 0
CanTakeWriterBit(l) == l.writer = 0
\* a write() that does not wait for the readers
KeepsNoReaderOut(l) == TRUE

ReadersDrained(l) == l.readers = {}

ReadLock(l, t) == [l EXCEPT !.readers = @ \cup {t}]
ReadUnlock(l, t) == [l EXCEPT !.readers = @ \ {t}]
WriterBit(l, t) == [l EXCEPT !.writer = t]
WriteUnlock(l, t) == [l EXCEPT !.writer = 0]

\* ---- values of the facade
DirectionOf(is_outgoing) == IF is_outgoing THEN "Up" ELSE "Down"

ZeroStats ==
    [packets_compressed |-> 0, packets_decompressed |-> 0,
     compression_failures |-> 0, decompression_failures |-> 0,
     total_original_header_bits |-> 0, total_compressed_header_bits |-> 0]

NoArg == [op |-> "none", payload |-> << >>, src |-> Client, dst |-> Client,
          is_outgoing |-> FALSE]

NoRes == [success |-> FALSE, packet |-> << >>, original_header_size |-> 0,
          compressed_header_size |-> 0, rule_id |-> 0, rule_id_length |-> 0]


\* an Ok arm that takes the payload start from the start of the IPv4 header
CompressOkFromIpStart(result, quic_payload) ==
    LET original_header_bytes   == (result.original_header_bits + 7) \div 8
        compressed_header_bytes == (result.compressed_header_bits + 7) \div 8
        app_payload_start == Min(original_header_bytes, Len(quic_payload))
    IN  [success |-> TRUE,
         packet |-> result.data \o Drop(quic_payload, app_payload_start),
         original_header_size |-> original_header_bytes,
         compressed_header_size |-> compressed_header_bytes,
         rule_id |-> result.rule_id, rule_id_length |-> result.rule_id_length]

\* the Ok arm of compress: residue bytes, then the payload past the headers
CompressOk(result, quic_payload) ==
    LET original_header_bytes   == (result.original_header_bits + 7) \div 8
        compressed_header_bytes == (result.compressed_header_bits + 7) \div 8
        quic_header_bytes == SatSub(original_header_bytes, IpHeaderLen + UdpHeaderLen)
        app_payload_start == Min(quic_header_bytes, Len(quic_payload))
    IN  [success |-> TRUE,
         packet |-> result.data \o Drop(quic_payload, app_payload_start),
         original_header_size |-> original_header_bytes,
         compressed_header_size |-> compressed_header_bytes,
         rule_id |-> result.rule_id, rule_id_length |-> result.rule_id_length]

\* an Err arm that returns nothing
CompressFailEmpty(quic_payload) ==
    [success |-> FALSE, packet |-> << >>, original_header_size |-> 0,
     compressed_header_size |-> 0, rule_id |-> 0, rule_id_length |-> 0]

\* the Err arm of compress: the original payload
CompressFail(quic_payload) ==
    [success |-> FALSE, packet |-> quic_payload, original_header_size |-> 0,
     compressed_header_size |-> 0, rule_id |-> 0, rule_id_length |-> 0]

\* statistics that store the bit counts of the last packet instead of adding
StatsCompressOkStore(st, result) ==
    [st EXCEPT !.packets_compressed = @ + 1,
               !.total_original_header_bits = result.original_header_bits,
               !.total_compressed_header_bits = result.compressed_header_bits]

StatsCompressOk(st, result) ==
    [st EXCEPT !.packets_compressed = @ + 1,
               !.total_original_header_bits = @ + result.original_header_bits,
               !.total_compressed_header_bits = @ + result.compressed_header_bits]

\* history: the bit counts of a successful compress_packet
NoteCompressed(n, result, gen, rs) ==
    [n EXCEPT !.cgen = gen,
              !.matched = << rs[FindRule(rs, result.rule_id, result.rule_id_length)] >>,
              !.obits = result.original_header_bits,
              !.cbits = result.compressed_header_bits]

StatsCompressFail(st) == [st EXCEPT !.compression_failures = @ + 1]

\* an Ok arm that strips the IPv4 header only
DecompressOkKeepsUdp(result, compressed_data) ==
    LET schc_bytes    == (result.bits_consumed + 7) \div 8
        payload_start == Min(schc_bytes, Len(compressed_data))
        quic_start    == IpHeaderLen
        quic_header   == IF Len(result.full_data) > quic_start
                         THEN Drop(result.full_data, quic_start) ELSE << >>
    IN  [success |-> TRUE, packet |-> quic_header \o Drop(compressed_data, payload_start),
         original_header_size |-> 0, compressed_header_size |-> 0,
         rule_id |-> result.rule_id, rule_id_length |-> 0]

\* the Ok arm of decompress: QUIC part of the header, then the input past
\* the SCHC bytes
DecompressOk(result, compressed_data) ==
    LET schc_bytes    == (result.bits_consumed + 7) \div 8
        payload_start == Min(schc_bytes, Len(compressed_data))
        quic_start    == IpHeaderLen + UdpHeaderLen
        quic_header   == IF Len(result.full_data) > quic_start
                         THEN Drop(result.full_data, quic_start) ELSE << >>
    IN  [success |-> TRUE, packet |-> quic_header \o Drop(compressed_data, payload_start),
         original_header_size |-> 0, compressed_header_size |-> 0,
         rule_id |-> result.rule_id, rule_id_length |-> 0]

\* the Err arm of decompress: Err(String)
DecompressFail(result) == NoRes

StatsDecompressOk(st) == [st EXCEPT !.packets_decompressed = @ + 1]

\* an Err arm that counts the packet as decompressed
StatsDecompressFailAsOk(st) ==
    [st EXCEPT !.decompression_failures = @ + 1, !.packets_decompressed = @ + 1]

StatsDecompressFail(st) == [st EXCEPT !.decompression_failures = @ + 1]

\* a from_files that creates the session whatever its flag
SessionAlways(dynamic_quic_rules) ==
    QuicSessionNew(DynRuleStart, DynRuleEnd, DynRuleIdLength)

\* from_files: the session exists only when dynamic rules are enabled
SessionFor(dynamic_quic_rules) ==
    IF dynamic_quic_rules
    THEN QuicSessionNew(DynRuleStart, DynRuleEnd, DynRuleIdLength)
    ELSE NoSession

\* the retain loop and the extend of try_learn_quic_cids
RECURSIVE RetainOthers(_, _)
RetainOthers(rs, batch) ==
    IF rs = << >> THEN << >>
    ELSE IF \E i \in 1..Len(batch) : RuleKey(batch[i]) = RuleKey(Head(rs))
         THEN RetainOthers(Tail(rs), batch)
         ELSE << Head(rs) >> \o RetainOthers(Tail(rs), batch)

\* an installation that removes the colliding rules and appends nothing
InstallRulesRetainOnly(rs, batch) == RetainOthers(rs, batch)

\* an installation that only appends
InstallRulesAppendOnly(rs, batch) == rs \o batch

InstallRules(rs, batch) == RetainOthers(rs, batch) \o batch

\* ---- history (not program state): generation of the rule set, the
\* installations whose call has returned and the pairs already compressed
\* again since, and every (input, output) of compress so far
NoHist == [gen |-> 0, installed |-> {}, served |-> {}, outputs |-> {},
           compress_calls |-> 0, decompress_calls |-> 0,
           original_bits |-> 0, compressed_bits |-> 0]

NoNote == [loop |-> FALSE, orig |-> << >>, cgen |-> 0, dgen |-> 0, expect |-> 0,
           learned |-> << >>, obits |-> 0, cbits |-> 0, matched |-> << >>,
           learns |-> 0]

\* the configurations the model builds the compressor from
Configs == { << "plain", FALSE >>, << "plain", TRUE >>,
             << "nibble", TRUE >>, << "reserved", TRUE >>,
             << "verbose", FALSE >> }

ZeroObsStats ==
    [packets_processed |-> 0, packets_matched |-> 0,
     total_original_bits |-> 0, total_compressed_bits |-> 0]

NoObsRes == [original_header_bits |-> 0, compressed_header_bits |-> 0]

\* SchcObserver::from_files on the rule file of the configuration
ObserverFromFiles ==
    /\ obs_rules = RuleSetFromFile(rules_path)
    /\ obs_tree = build_tree(obs_rules)
    /\ obs_stats = ZeroObsStats
    /\ obs_pc = [t \in Threads |-> "idle"]
    /\ obs_arg = [t \in Threads |-> NoArg]
    /\ obs_res = [t \in Threads |-> NoObsRes]
    /\ obs_calls = 0

Init ==
    /\ \E c \in Configs : rules_path = c[1] /\ dynamic = c[2]
    /\ ObserverFromFiles
    /\ rules = RuleSetFromFile(rules_path)
    /\ tree = build_tree(rules)
    /\ quic_session = SessionFor(dynamic)
    /\ stats = ZeroStats
    /\ tree_lock = FreeLock /\ rules_lock = FreeLock /\ session_lock = FreeLock
    /\ pc = [t \in Threads |-> "idle"]
    /\ arg = [t \in Threads |-> NoArg]
    /\ res = [t \in Threads |-> NoRes]
    /\ note = [t \in Threads |-> NoNote]
    /\ new_rules = [t \in Threads |-> << >>]
    /\ new_tree = [t \in Threads |-> {}]
    /\ calls = 0
    /\ hist = NoHist

\* ------------------------------------------------------------------------
\* The facade: compress
\* ------------------------------------------------------------------------

CompressArg(payload, src, dst, is_outgoing) ==
    [op |-> "compress", payload |-> payload, src |-> src, dst |-> dst,
     is_outgoing |-> is_outgoing]

CompressInputs ==
    { CompressArg(PayloadA, Client, Server, TRUE),
      CompressArg(PayloadB, Client, Server, TRUE),
      CompressArg(PayloadS, Server, Client, FALSE),
      CompressArg(PayloadA, ClientV6, Server, TRUE) }

\* compressed input that did not come from this compressor
DecompressInputs ==
    { [op |-> "decompress", payload |-> << 255, 1 >>, src |-> Client, dst |-> Client,
       is_outgoing |-> TRUE] }

\* the synthetic frame of each input, parsed, and its CID pair
ParsedOf ==
    [a \in CompressInputs |->
        StreamingParser(build_synthetic_packet(a.payload, a.src, a.dst))]

Parsed(a) == ParsedOf[a]

PairOf == [a \in CompressInputs |-> CidPair(ParsedOf[a])]

Goto(t, from, to) == pc[t] = from /\ pc' = [pc EXCEPT ![t] = to]

\* the dynamic rule id already installed (call returned) for the pair of a
\* frame and not yet compressed again; 0 when there is none
ExpectedRule(pair) ==
    LET ids == {e[2] : e \in {x \in hist.installed :
                                 x[1] = pair /\ x[1] \notin hist.served}}
    IN  IF ids = {} THEN 0 ELSE CHOOSE i \in ids : TRUE

\* compress, up to build_synthetic_packet (which may panic)
StartCompress(t) ==
    /\ pc[t] = "idle"
    /\ calls < MaxCalls
    /\ calls' = calls + 1
    /\ \E a \in CompressInputs :
         /\ arg' = [arg EXCEPT ![t] = a]
         /\ IF SyntheticPanics(a.payload, a.src, a.dst)
            THEN /\ pc' = [pc EXCEPT ![t] = "panicked"]
                 /\ UNCHANGED << note, hist >>
            ELSE /\ pc' = [pc EXCEPT ![t] = "c_tree"]
                 /\ note' = [note EXCEPT ![t] =
                               [NoNote EXCEPT !.expect = ExpectedRule(PairOf[a])]]
                 /\ hist' = IF ExpectedRule(PairOf[a]) # 0
                            THEN [hist EXCEPT !.served = @ \cup {PairOf[a]}]
                            ELSE hist
    /\ UNCHANGED << observer, config, shared, stats, locks, res, new_rules, new_tree >>

\* let tree = self.tree.read();
CompressReadTree(t) ==
    /\ Goto(t, "c_tree", "c_rules")
    /\ CanRead(tree_lock)
    /\ tree_lock' = ReadLock(tree_lock, t)
    /\ UNCHANGED << observer, config, shared, stats, rules_lock, session_lock, arg, res,
                    new_rules, new_tree, calls, note, hist >>

\* let rules = self.rules.read();
CompressReadRules(t) ==
    /\ Goto(t, "c_rules", "c_pack")
    /\ CanRead(rules_lock)
    /\ rules_lock' = ReadLock(rules_lock, t)
    /\ UNCHANGED << observer, config, shared, stats, tree_lock, session_lock, arg, res,
                    new_rules, new_tree, calls, note, hist >>

\* compress_packet under both read guards; the Ok arm up to the statistics
CompressPacket(t) ==
    /\ pc[t] = "c_pack"
    /\ LET result == compress_packet(tree, Parsed(arg[t]),
                                     DirectionOf(arg[t].is_outgoing), rules)
       IN  IF result.ok
           THEN /\ res' = [res EXCEPT ![t] = CompressOk(result, arg[t].payload)]
                /\ stats' = StatsCompressOk(stats, result)
                /\ pc' = [pc EXCEPT ![t] = "c_ok_drop_tree"]
                /\ note' = [note EXCEPT ![t] = NoteCompressed(@, result, hist.gen, rules)]
           ELSE /\ pc' = [pc EXCEPT ![t] = "c_err_drop_tree"]
                /\ note' = [note EXCEPT ![t].cgen = hist.gen]
                /\ UNCHANGED << res, stats >>
    /\ UNCHANGED << observer, config, shared, locks, arg, new_rules, new_tree, calls, hist >>

\* an Ok arm that keeps the tree guard past the drop of the rules guard
CompressOkKeepTree(t) ==
    /\ Goto(t, "c_ok_drop_tree", "c_ok_drop_rules")
    /\ UNCHANGED << observer, config, shared, stats, locks, arg, res,
                    new_rules, new_tree, calls, note, hist >>

\* drop(tree);
CompressOkDropTree(t) ==
    /\ Goto(t, "c_ok_drop_tree", "c_ok_drop_rules")
    /\ tree_lock' = ReadUnlock(tree_lock, t)
    /\ UNCHANGED << observer, config, shared, stats, rules_lock, session_lock, arg, res,
                    new_rules, new_tree, calls, note, hist >>

\* drop(rules); then try_learn_quic_cids when there is a session
CompressOkSkipLearn(t) ==
    /\ pc[t] = "c_ok_drop_rules"
    /\ pc' = [pc EXCEPT ![t] = "c_ret"]
    /\ rules_lock' = ReadUnlock(rules_lock, t)
    /\ UNCHANGED << observer, config, shared, stats, tree_lock, session_lock, arg, res,
                    new_rules, new_tree, calls, note, hist >>

CompressOkDropRules(t) ==
    /\ pc[t] = "c_ok_drop_rules"
    /\ pc' = [pc EXCEPT ![t] = IF quic_session.some THEN "l_rules" ELSE "c_ret"]
    /\ rules_lock' = ReadUnlock(rules_lock, t)
    /\ note' = [note EXCEPT ![t].learns = IF quic_session.some THEN @ + 1 ELSE @]
    /\ UNCHANGED << observer, config, shared, stats, tree_lock, session_lock, arg, res,
                    new_rules, new_tree, calls, hist >>

\* Err arm: drop(tree);
CompressErrDropTree(t) ==
    /\ Goto(t, "c_err_drop_tree", "c_err_drop_rules")
    /\ tree_lock' = ReadUnlock(tree_lock, t)
    /\ UNCHANGED << observer, config, shared, stats, rules_lock, session_lock, arg, res,
                    new_rules, new_tree, calls, note, hist >>

\* Err arm: drop(rules);
CompressErrDropRules(t) ==
    /\ Goto(t, "c_err_drop_rules", "c_err_count")
    /\ rules_lock' = ReadUnlock(rules_lock, t)
    /\ UNCHANGED << observer, config, shared, stats, tree_lock, session_lock, arg, res,
                    new_rules, new_tree, calls, note, hist >>

\* Err arm: the failure counter and the passthrough result
CompressErrCount(t) ==
    /\ Goto(t, "c_err_count", "c_ret")
    /\ stats' = StatsCompressFail(stats)
    /\ res' = [res EXCEPT ![t] = CompressFail(arg[t].payload)]
    /\ UNCHANGED << observer, config, shared, locks, arg, new_rules, new_tree, calls, note, hist >>

\* ------------------------------------------------------------------------
\* The facade: try_learn_quic_cids
\* ------------------------------------------------------------------------

\* let rules = self.rules.read();
LearnReadRules(t) ==
    /\ Goto(t, "l_rules", "l_sess")
    /\ CanRead(rules_lock)
    /\ rules_lock' = ReadLock(rules_lock, t)
    /\ UNCHANGED << observer, config, shared, stats, tree_lock, session_lock, arg, res,
                    new_rules, new_tree, calls, note, hist >>

\* let mut session = session_lock.write();
LearnWriteSession(t) ==
    /\ Goto(t, "l_sess", "l_update")
    /\ CanTakeWriterBit(session_lock) /\ ReadersDrained(session_lock)
    /\ session_lock' = WriterBit(session_lock, t)
    /\ UNCHANGED << observer, config, shared, stats, tree_lock, rules_lock, arg, res,
                    new_rules, new_tree, calls, note, hist >>

\* base rule lookup, update_from_packet and take_generated_rules
LearnUpdate(t) ==
    /\ pc[t] = "l_update"
    /\ LET idx  == FindRule(rules, res[t].rule_id, res[t].rule_id_length)
           base == IF idx = 0 THEN << >> ELSE << rules[idx] >>
           u    == update_from_packet(quic_session, Parsed(arg[t]), base)
       IN  /\ quic_session' = u.session
           /\ new_rules' = [new_rules EXCEPT ![t] = u.new_rules]
           /\ pc' = [pc EXCEPT ![t] = IF u.generated THEN "l_drop_sess"
                                      ELSE "l_end_drop_sess"]
           /\ note' = [note EXCEPT ![t].learned =
                          IF u.generated
                          THEN << PairOf[arg[t]], u.new_rules[1].rule_id >>
                          ELSE << >>]
    /\ UNCHANGED << observer, config, tree, rules, stats, locks, arg, res, new_tree, calls, hist >>

\* drop(session);
LearnDropSession(t) ==
    /\ Goto(t, "l_drop_sess", "l_drop_rules")
    /\ session_lock' = WriteUnlock(session_lock, t)
    /\ UNCHANGED << observer, config, shared, stats, tree_lock, rules_lock, arg, res,
                    new_rules, new_tree, calls, note, hist >>

\* an installer that keeps its rules read guard and asks for the write guard
LearnKeepRules(t) ==
    /\ Goto(t, "l_drop_rules", "l_wrules")
    /\ UNCHANGED << observer, config, shared, stats, locks, arg, res,
                    new_rules, new_tree, calls, note, hist >>

\* drop(rules);
LearnDropRules(t) ==
    /\ Goto(t, "l_drop_rules", "l_wrules")
    /\ rules_lock' = ReadUnlock(rules_lock, t)
    /\ UNCHANGED << observer, config, shared, stats, tree_lock, session_lock, arg, res,
                    new_rules, new_tree, calls, note, hist >>

\* let mut rules_write = self.rules.write(); the writer bit
LearnWriteRules(t) ==
    /\ Goto(t, "l_wrules", "l_wrules_drain")
    /\ CanTakeWriterBit(rules_lock)
    /\ rules_lock' = WriterBit(rules_lock, t)
    /\ UNCHANGED << observer, config, shared, stats, tree_lock, session_lock, arg, res,
                    new_rules, new_tree, calls, note, hist >>

\* self.rules.write() returns once the readers have left
LearnWriteRulesGranted(t) ==
    /\ Goto(t, "l_wrules_drain", "l_mutate")
    /\ ReadersDrained(rules_lock)
    /\ UNCHANGED << observer, config, shared, stats, locks, arg, res, new_rules, new_tree,
                    calls, note, hist >>

\* retain, extend, and build_tree(&rules_write) into new_tree
LearnMutate(t) ==
    /\ Goto(t, "l_mutate", "l_rel_wrules")
    /\ rules' = InstallRules(rules, new_rules[t])
    /\ new_tree' = [new_tree EXCEPT ![t] = build_tree(rules')]
    /\ hist' = [hist EXCEPT !.gen = @ + 1]
    /\ UNCHANGED << observer, config, tree, quic_session, stats, locks, arg, res, new_rules,
                    calls, note >>

\* drop(rules_write);
LearnReleaseRules(t) ==
    /\ Goto(t, "l_rel_wrules", "l_wtree")
    /\ rules_lock' = WriteUnlock(rules_lock, t)
    /\ UNCHANGED << observer, config, shared, stats, tree_lock, session_lock, arg, res,
                    new_rules, new_tree, calls, note, hist >>

\* let mut tree_write = self.tree.write(); the writer bit
LearnWriteTree(t) ==
    /\ Goto(t, "l_wtree", "l_wtree_drain")
    /\ CanTakeWriterBit(tree_lock)
    /\ tree_lock' = WriterBit(tree_lock, t)
    /\ UNCHANGED << observer, config, shared, stats, rules_lock, session_lock, arg, res,
                    new_rules, new_tree, calls, note, hist >>

\* self.tree.write() returns once the readers have left
LearnWriteTreeGranted(t) ==
    /\ Goto(t, "l_wtree_drain", "l_swap")
    /\ ReadersDrained(tree_lock)
    /\ UNCHANGED << observer, config, shared, stats, locks, arg, res, new_rules, new_tree,
                    calls, note, hist >>

\* *tree_write = new_tree;
LearnSwap(t) ==
    /\ Goto(t, "l_swap", "l_rel_wtree")
    /\ tree' = new_tree[t]
    /\ UNCHANGED << observer, config, rules, quic_session, stats, locks, arg, res, new_rules,
                    new_tree, calls, note, hist >>

\* end of try_learn_quic_cids after an installation: tree_write is dropped
LearnReleaseTree(t) ==
    /\ Goto(t, "l_rel_wtree", "c_ret")
    /\ tree_lock' = WriteUnlock(tree_lock, t)
    /\ new_rules' = [new_rules EXCEPT ![t] = << >>]
    /\ new_tree' = [new_tree EXCEPT ![t] = {}]
    /\ hist' = [hist EXCEPT !.installed = @ \cup {note[t].learned}]
    /\ UNCHANGED << observer, config, shared, stats, rules_lock, session_lock, arg, res,
                    calls, note >>

\* end of try_learn_quic_cids without new rules: session is dropped first
LearnEndDropSession(t) ==
    /\ Goto(t, "l_end_drop_sess", "l_end_drop_rules")
    /\ session_lock' = WriteUnlock(session_lock, t)
    /\ UNCHANGED << observer, config, shared, stats, tree_lock, rules_lock, arg, res,
                    new_rules, new_tree, calls, note, hist >>

\* ... then the rules read guard
LearnEndDropRules(t) ==
    /\ Goto(t, "l_end_drop_rules", "c_ret")
    /\ rules_lock' = ReadUnlock(rules_lock, t)
    /\ UNCHANGED << observer, config, shared, stats, tree_lock, session_lock, arg, res,
                    new_rules, new_tree, calls, note, hist >>

\* ------------------------------------------------------------------------
\* The facade: return of compress, decompress
\* ------------------------------------------------------------------------

Recorded(t) ==
    [hist EXCEPT !.outputs = @ \cup {<< arg[t], res[t].packet >>},
                 !.compress_calls = @ + 1,
                 !.original_bits = @ + note[t].obits,
                 !.compressed_bits = @ + note[t].cbits]

\* compress returns its CompressResult
CompressReturn(t) ==
    /\ Goto(t, "c_ret", "idle")
    /\ hist' = Recorded(t)
    /\ arg' = [arg EXCEPT ![t] = NoArg]
    /\ res' = [res EXCEPT ![t] = NoRes]
    /\ note' = [note EXCEPT ![t] = NoNote]
    /\ UNCHANGED << observer, config, shared, stats, locks, new_rules, new_tree, calls >>

\* compress returns and the caller hands the compressed packet to decompress
\* with the same direction
CompressReturnLoopback(t) ==
    /\ Goto(t, "c_ret", "d_rules")
    /\ res[t].success
    /\ calls < MaxCalls
    /\ calls' = calls + 1
    /\ hist' = Recorded(t)
    /\ arg' = [arg EXCEPT ![t] = [@ EXCEPT !.op = "decompress",
                                            !.payload = res[t].packet]]
    /\ res' = [res EXCEPT ![t] = NoRes]
    /\ note' = [note EXCEPT ![t] = [NoNote EXCEPT !.loop = TRUE,
                                                   !.orig = arg[t].payload,
                                                   !.cgen = note[t].cgen]]
    /\ UNCHANGED << observer, config, shared, stats, locks, new_rules, new_tree >>

StartDecompress(t) ==
    /\ Goto(t, "idle", "d_rules")
    /\ calls < MaxCalls
    /\ calls' = calls + 1
    /\ \E a \in DecompressInputs : arg' = [arg EXCEPT ![t] = a]
    /\ UNCHANGED << observer, config, shared, stats, locks, res, new_rules, new_tree, note, hist >>

\* a decompress that takes the tree read guard as compress does
DecompressReadTreeToo(t) ==
    /\ Goto(t, "d_rules", "d_unpack")
    /\ CanRead(rules_lock) /\ CanRead(tree_lock)
    /\ tree_lock' = ReadLock(tree_lock, t)
    /\ rules_lock' = ReadLock(rules_lock, t)
    /\ UNCHANGED << observer, config, shared, stats, session_lock, arg, res,
                    new_rules, new_tree, calls, note, hist >>

\* let rules = self.rules.read();
DecompressReadRules(t) ==
    /\ Goto(t, "d_rules", "d_unpack")
    /\ CanRead(rules_lock)
    /\ rules_lock' = ReadLock(rules_lock, t)
    /\ UNCHANGED << observer, config, shared, stats, tree_lock, session_lock, arg, res,
                    new_rules, new_tree, calls, note, hist >>

\* decompress_packet and both arms of the match
DecompressPacket(t) ==
    /\ Goto(t, "d_unpack", "d_drop")
    /\ LET result == decompress_packet(arg[t].payload, rules,
                                       DirectionOf(arg[t].is_outgoing))
       IN  IF result.ok
           THEN /\ res' = [res EXCEPT ![t] = DecompressOk(result, arg[t].payload)]
                /\ stats' = StatsDecompressOk(stats)
           ELSE /\ res' = [res EXCEPT ![t] = DecompressFail(result)]
                /\ stats' = StatsDecompressFail(stats)
    /\ note' = [note EXCEPT ![t].dgen = hist.gen]
    /\ UNCHANGED << observer, config, shared, locks, arg, new_rules, new_tree, calls, hist >>

\* the rules read guard is dropped at the end of decompress
DecompressDropRules(t) ==
    /\ Goto(t, "d_drop", "d_ret")
    /\ rules_lock' = ReadUnlock(rules_lock, t)
    /\ UNCHANGED << observer, config, shared, stats, tree_lock, session_lock, arg, res,
                    new_rules, new_tree, calls, note, hist >>

DecompressReturn(t) ==
    /\ Goto(t, "d_ret", "idle")
    /\ arg' = [arg EXCEPT ![t] = NoArg]
    /\ res' = [res EXCEPT ![t] = NoRes]
    /\ note' = [note EXCEPT ![t] = NoNote]
    /\ hist' = [hist EXCEPT !.decompress_calls = @ + 1]
    /\ UNCHANGED << observer, config, shared, stats, locks, new_rules, new_tree, calls >>

Step(t) ==
    \/ StartCompress(t) \/ CompressReadTree(t) \/ CompressReadRules(t)
    \/ CompressPacket(t) \/ CompressOkDropTree(t) \/ CompressOkDropRules(t)
    \/ CompressErrDropTree(t) \/ CompressErrDropRules(t) \/ CompressErrCount(t)
    \/ LearnReadRules(t) \/ LearnWriteSession(t) \/ LearnUpdate(t)
    \/ LearnDropSession(t) \/ LearnDropRules(t) \/ LearnWriteRules(t)
    \/ LearnWriteRulesGranted(t) \/ LearnMutate(t) \/ LearnReleaseRules(t)
    \/ LearnWriteTree(t) \/ LearnWriteTreeGranted(t) \/ LearnSwap(t)
    \/ LearnReleaseTree(t) \/ LearnEndDropSession(t) \/ LearnEndDropRules(t)
    \/ CompressReturn(t) \/ CompressReturnLoopback(t) \/ StartDecompress(t)
    \/ DecompressReadRules(t) \/ DecompressPacket(t) \/ DecompressDropRules(t)
    \/ DecompressReturn(t)

Next == \E t \in Threads : Step(t)

Spec == Init /\ [][Next]_vars

\* ------------------------------------------------------------------------
\* The compressor after earlier traffic: WarmCalls sequential compress calls
\* of long-header packets with pairwise different CID pairs, computed with
\* the operators of the calls
\* ------------------------------------------------------------------------

WarmCalls == 10

PayloadW(i) == << 195, 0, 0, 0, 1, 2, i, i, 1, i, 7, 9 >>

WarmParser(i) == StreamingParser(build_synthetic_packet(PayloadW(i), Client, Server))

Constructed(path) ==
    [rules |-> RuleSetFromFile(path), tree |-> build_tree(RuleSetFromFile(path)),
     session |-> SessionFor(TRUE), stats |-> ZeroStats, gen |-> 0]

\* end of try_learn_quic_cids in a call that runs alone
WarmInstalled(st, u, result) ==
    IF u.generated
    THEN [rules |-> InstallRules(st.rules, u.new_rules),
          tree |-> build_tree(InstallRules(st.rules, u.new_rules)),
          session |-> u.session, stats |-> StatsCompressOk(st.stats, result),
          gen |-> st.gen + 1]
    ELSE [st EXCEPT !.session = u.session,
                    !.stats = StatsCompressOk(st.stats, result)]

WarmLearned(st, result, parser, idx) ==
    WarmInstalled(st,
                  update_from_packet(st.session, parser,
                                     IF idx = 0 THEN << >> ELSE << st.rules[idx] >>),
                  result)

WarmCompressed(st, result, parser) ==
    IF result.ok
    THEN WarmLearned(st, result, parser,
                     FindRule(st.rules, result.rule_id, result.rule_id_length))
    ELSE [st EXCEPT !.stats = StatsCompressFail(@)]

WarmCall(st, parser) ==
    WarmCompressed(st, compress_packet(st.tree, parser, "Up", st.rules), parser)

\* the calls k..WarmCalls, one after the other, from the state st
RECURSIVE WarmFrom(_, _)
WarmFrom(st, k) ==
    IF k > WarmCalls \/ st.rules = << >> THEN st
    ELSE WarmFrom(WarmCall(st, WarmParser(k)), k + 1)

Warm(path) == WarmFrom(Constructed(path), 1)

WarmPaths == {"plain", "nibble", "reserved"}

WarmState == [p \in WarmPaths |-> Warm(p)]

WarmInit ==
    /\ \E p \in WarmPaths :
          /\ rules_path = p
          /\ rules = WarmState[p].rules
          /\ tree = WarmState[p].tree
          /\ quic_session = WarmState[p].session
          /\ stats = WarmState[p].stats
          /\ hist = [NoHist EXCEPT
                       !.gen = WarmState[p].gen,
                       !.installed = WarmState[p].session.assigned,
                       !.served = {a[1] : a \in WarmState[p].session.assigned},
                       !.compress_calls = WarmCalls,
                       !.original_bits = WarmState[p].stats.total_original_header_bits,
                       !.compressed_bits =
                           WarmState[p].stats.total_compressed_header_bits]
    /\ dynamic = TRUE
    /\ ObserverFromFiles
    /\ tree_lock = FreeLock /\ rules_lock = FreeLock /\ session_lock = FreeLock
    /\ pc = [t \in Threads |-> "idle"]
    /\ arg = [t \in Threads |-> NoArg]
    /\ res = [t \in Threads |-> NoRes]
    /\ note = [t \in Threads |-> NoNote]
    /\ new_rules = [t \in Threads |-> << >>]
    /\ new_tree = [t \in Threads |-> {}]
    /\ calls = 0

\* the calls of Spec on a compressor that has seen the earlier traffic
WarmSpec == WarmInit /\ [][Next]_vars

\* ------------------------------------------------------------------------
\* The observer: observe(&self, quic_payload, source_addr, dest_addr,
\* is_outgoing) on a shared SchcObserver; the debug printing is left out
\* ------------------------------------------------------------------------

MaxObserve == 3

\* an observe that does not count the packet
ObserveProcessedNone(st) == st

\* self.stats.packets_processed.fetch_add(1)
ObserveProcessed(st) == [st EXCEPT !.packets_processed = @ + 1]

ObsGoto(t, from, to) == obs_pc[t] = from /\ obs_pc' = [obs_pc EXCEPT ![t] = to]

\* entry of observe and its first statement
ObserveStart(t) ==
    /\ ObsGoto(t, "idle", "o_build")
    /\ obs_calls < MaxObserve
    /\ obs_calls' = obs_calls + 1
    /\ \E a \in CompressInputs : obs_arg' = [obs_arg EXCEPT ![t] = a]
    /\ obs_stats' = ObserveProcessed(obs_stats)
    /\ UNCHANGED << facade, obs_tree, obs_rules, obs_res >>

\* build_synthetic_packet panics on an address that is not IPv4
ObserveBuild(t) ==
    /\ obs_pc[t] = "o_build"
    /\ obs_pc' = [obs_pc EXCEPT ![t] =
                    IF SyntheticPanics(obs_arg[t].payload, obs_arg[t].src,
                                       obs_arg[t].dst)
                    THEN "panicked" ELSE "o_pack"]
    /\ UNCHANGED << facade, obs_tree, obs_rules, obs_stats, obs_arg, obs_res,
                    obs_calls >>

\* compress_packet on the observer's tree and rules; the Err arm does nothing
ObservePacket(t) ==
    /\ obs_pc[t] = "o_pack"
    /\ LET result == compress_packet(obs_tree, Parsed(obs_arg[t]),
                                     DirectionOf(obs_arg[t].is_outgoing), obs_rules)
       IN  IF result.ok
           THEN /\ obs_res' = [obs_res EXCEPT ![t] =
                        [original_header_bits |-> result.original_header_bits,
                         compressed_header_bits |-> result.compressed_header_bits]]
                /\ obs_pc' = [obs_pc EXCEPT ![t] = "o_matched"]
           ELSE /\ obs_pc' = [obs_pc EXCEPT ![t] = "o_ret"]
                /\ UNCHANGED obs_res
    /\ UNCHANGED << facade, obs_tree, obs_rules, obs_stats, obs_arg, obs_calls >>

\* self.stats.packets_matched.fetch_add(1)
ObserveMatched(t) ==
    /\ ObsGoto(t, "o_matched", "o_original")
    /\ obs_stats' = [obs_stats EXCEPT !.packets_matched = @ + 1]
    /\ UNCHANGED << facade, obs_tree, obs_rules, obs_arg, obs_res, obs_calls >>

\* total_original_bits.fetch_add(result.original_header_bits)
ObserveAddOriginal(t) ==
    /\ ObsGoto(t, "o_original", "o_compressed")
    /\ obs_stats' = [obs_stats EXCEPT
                        !.total_original_bits = @ + obs_res[t].original_header_bits]
    /\ UNCHANGED << facade, obs_tree, obs_rules, obs_arg, obs_res, obs_calls >>

\* total_compressed_bits.fetch_add(result.compressed_header_bits)
ObserveAddCompressed(t) ==
    /\ ObsGoto(t, "o_compressed", "o_ret")
    /\ obs_stats' = [obs_stats EXCEPT
                        !.total_compressed_bits = @ + obs_res[t].compressed_header_bits]
    /\ UNCHANGED << facade, obs_tree, obs_rules, obs_arg, obs_res, obs_calls >>

ObserveReturn(t) ==
    /\ ObsGoto(t, "o_ret", "idle")
    /\ obs_arg' = [obs_arg EXCEPT ![t] = NoArg]
    /\ obs_res' = [obs_res EXCEPT ![t] = NoObsRes]
    /\ UNCHANGED << facade, obs_tree, obs_rules, obs_stats, obs_calls >>

ObserverStep(t) ==
    \/ ObserveStart(t) \/ ObserveBuild(t) \/ ObservePacket(t)
    \/ ObserveMatched(t) \/ ObserveAddOriginal(t) \/ ObserveAddCompressed(t)
    \/ ObserveReturn(t)

ObserverNext == \E t \in Threads : ObserverStep(t)

\* concurrent observe calls on one observer
ObserverSpec == Init /\ [][ObserverNext]_vars

\* ------------------------------------------------------------------------
\* Properties
\* ------------------------------------------------------------------------

IsCompress(t) == arg[t].op = "compress"

\* C1: round trip through the facade: a compress that returned success=true,
\* handed to decompress with the same direction while the rule set is the
\* one the packet was compressed under, gives Ok and the original payload
C1_RoundTrip ==
    \A t \in Threads :
        (pc[t] = "d_ret" /\ note[t].loop /\ note[t].cgen = note[t].dgen)
            => (res[t].success /\ res[t].packet = note[t].orig)

\* C2: the (tree, rules) pair a compress call passes to compress_packet
\* satisfies tree = build_tree(rules)
C2_ReaderSeesTreeOfRules ==
    \A t \in Threads : pc[t] = "c_pack" => tree = build_tree(rules)

\* C3: once the call that installed a dynamic rule for a CID pair has
\* returned, the next compress of a packet carrying that pair matches the
\* dynamic rule
C3_NextCompressMatchesDynamicRule ==
    \A t \in Threads :
        (pc[t] = "c_ret" /\ IsCompress(t) /\ note[t].expect # 0)
            => (res[t].success /\ res[t].rule_id = note[t].expect
                               /\ res[t].rule_id_length = DynRuleIdLength)

ErrArm == {"c_err_drop_tree", "c_err_drop_rules", "c_err_count"}

\* C4: passthrough on failure: when compress_packet fails, the call changes
\* neither the rule set, the tree nor the session, adds exactly one to
\* compression_failures and nothing to any other counter, starts no learning,
\* and returns success=false with the input payload
C4_PassthroughOnFailure ==
    [][\A t \in Threads :
          /\ (pc[t] = "c_pack" /\ pc'[t] # pc[t]
                /\ ~compress_packet(tree, Parsed(arg[t]),
                                    DirectionOf(arg[t].is_outgoing), rules).ok)
               => (pc'[t] \in ErrArm /\ UNCHANGED << shared, stats >>)
          /\ (pc[t] \in ErrArm /\ pc'[t] # pc[t])
               => /\ UNCHANGED shared
                  /\ pc'[t] \in ErrArm \cup {"c_ret"}
                  /\ IF pc'[t] = "c_ret"
                     THEN /\ stats' = [stats EXCEPT !.compression_failures = @ + 1]
                          /\ ~res'[t].success
                          /\ res'[t].packet = arg[t].payload
                     ELSE UNCHANGED stats
          /\ (pc[t] = "c_ret" /\ IsCompress(t) /\ ~res[t].success /\ pc'[t] # pc[t])
               => (pc'[t] = "idle" /\ UNCHANGED << shared, stats >>)]_vars

\* C4 witness: a failed compress is about to return the input payload
C4_Witness ==
    \E t \in Threads :
        /\ pc[t] = "c_ret" /\ IsCompress(t)
        /\ ~res[t].success /\ res[t].packet = arg[t].payload
        /\ stats.compression_failures = 1

HoldsTreeRead == {"c_rules", "c_pack", "c_ok_drop_tree", "c_err_drop_tree"}

HoldsRulesRead == {"c_pack", "c_ok_drop_tree", "c_ok_drop_rules",
                   "c_err_drop_tree", "c_err_drop_rules"}

\* C5: no write to the tree or to the rule set takes effect while a compress
\* call holds the corresponding read guard, from its acquisition past the
\* end of compress_packet up to the drop
C5_NoWriteUnderReadGuards ==
    [][/\ (\E t \in Threads : pc[t] \in HoldsTreeRead) => tree' = tree
       /\ (\E t \in Threads : pc[t] \in HoldsRulesRead) => rules' = rules]_vars

\* C5 witness: a compress call is inside compress_packet while an installer
\* holds the writer bit of the rule set and waits for it
C5_Witness ==
    \E t, u \in Threads :
        /\ pc[t] = "c_pack" /\ pc[u] = "l_wrules_drain"
        /\ new_rules[u] # << >>

\* C6: no rule loaded from the rule file is ever removed or replaced by a
\* dynamic installation
C6_StaticRulesKept ==
    \A i \in 1..Len(RuleSetFromFile(rules_path)) :
        \E j \in 1..Len(rules) : rules[j] = RuleSetFromFile(rules_path)[i]

Blocked(t) ==
    \/ pc[t] = "c_tree" /\ ~CanRead(tree_lock)
    \/ pc[t] \in {"c_rules", "l_rules", "d_rules"} /\ ~CanRead(rules_lock)
    \/ pc[t] = "l_sess"
          /\ ~(CanTakeWriterBit(session_lock) /\ ReadersDrained(session_lock))
    \/ pc[t] = "l_wrules" /\ ~CanTakeWriterBit(rules_lock)
    \/ pc[t] = "l_wrules_drain" /\ ~ReadersDrained(rules_lock)
    \/ pc[t] = "l_wtree" /\ ~CanTakeWriterBit(tree_lock)
    \/ pc[t] = "l_wtree_drain" /\ ~ReadersDrained(tree_lock)

\* the call of t has a next step it can take now
Runnable(t) == pc[t] \notin {"idle", "panicked"} /\ ~Blocked(t)

\* C8: every call can still return: in every reachable state each call in
\* progress either has a step to take, or waits at a guard while another
\* call has a step to take (no call is stuck, no cycle of waiting calls)
C8_EveryCallCanReturn ==
    \A t \in Threads :
        pc[t] # "idle"
            => \/ Runnable(t)
               \/ Blocked(t) /\ \E u \in Threads \ {t} : Runnable(u)

\* C9: no call ever reaches a panic
C9_NoPanic == \A t \in Threads : pc[t] # "panicked"

\* C10: decompress reports failure of decompress_packet as Err and counts it
\* in decompression_failures only; success counts in packets_decompressed
\* only; neither touches the rule set, the tree or the session
C10_DecompressErrorsReported ==
    [][\A t \in Threads :
          /\ (pc[t] = "d_unpack" /\ pc'[t] # pc[t])
               => /\ UNCHANGED shared
                  /\ res'[t].success =
                        decompress_packet(arg[t].payload, rules,
                                          DirectionOf(arg[t].is_outgoing)).ok
                  /\ IF res'[t].success
                     THEN stats' = [stats EXCEPT !.packets_decompressed = @ + 1]
                     ELSE stats' = [stats EXCEPT !.decompression_failures = @ + 1]
          /\ (pc[t] \in {"d_drop", "d_ret"} /\ pc'[t] # pc[t])
               => /\ UNCHANGED << shared, stats >>
                  /\ pc'[t] = "d_ret" => res'[t] = res[t]]_vars

\* C10 witness: bytes whose leading bits name no rule were refused
C10_Witness ==
    \E t \in Threads :
        /\ pc[t] = "d_ret" /\ ~res[t].success
        /\ ScanRule(arg[t].payload, rules) = 0
        /\ stats.decompression_failures = 1 /\ stats.packets_decompressed = 0

\* bytes of the QUIC header that the descriptors of a rule cover in a packet
RECURSIVE QuicHeaderBits(_, _, _, _)
QuicHeaderBits(fields, parser, direction, i) ==
    IF i > Len(fields) THEN 0
    ELSE (IF /\ Applies(fields[i], direction)
             /\ fields[i].fid \in QuicFieldIds \cup {"QuicFirstByte"}
          THEN parser[fields[i].fid].len ELSE 0)
         + QuicHeaderBits(fields, parser, direction, i + 1)

\* the rule a successful compress of t has just used, under its read guards
UsedRule(t) == rules[FindRule(rules, res[t].rule_id, res[t].rule_id_length)]

CompressedQuicBytes(t) ==
    QuicHeaderBits(Fields(UsedRule(t)), Parsed(arg[t]),
                   DirectionOf(arg[t].is_outgoing), 1) \div 8

RECURSIVE ElidedBits(_, _, _, _)
ElidedBits(fields, parser, direction, i) ==
    IF i > Len(fields) THEN 0
    ELSE (IF ~Applies(fields[i], direction) THEN 0
          ELSE CASE fields[i].cda = "value-sent" -> 0
                 [] fields[i].cda = "lsb"        -> fields[i].k
                 [] OTHER                        -> parser[fields[i].fid].len)
         + ElidedBits(fields, parser, direction, i + 1)

HasNonValueSent(fields, direction) ==
    \E i \in 1..Len(fields) :
        Applies(fields[i], direction) /\ fields[i].cda # "value-sent"

IsStatic(r) == r.pin = << >>

\* C13 as stated: a successful compression against a static rule with at
\* least one non-value-sent action has compressed_header_bits at most
\* original_header_bits, whatever the rule-id length
C13_HeaderBudget ==
    \A t \in Threads :
        (pc[t] = "c_ok_drop_tree" /\ IsStatic(UsedRule(t))
           /\ HasNonValueSent(Fields(UsedRule(t)), DirectionOf(arg[t].is_outgoing)))
            => LET result == compress_packet(tree, Parsed(arg[t]),
                                             DirectionOf(arg[t].is_outgoing), rules)
               IN  result.compressed_header_bits <= result.original_header_bits

\* C13 amended: compressed_header_bits is L plus the residue bits, that is
\* original_header_bits less the bits the coding actions leave out plus L;
\* it is at most original_header_bits when the rule leaves out at least L
\* bits, and so are the header sizes in bytes the facade reports
C13_HeaderBudgetWhenRuleSavesL ==
    \A t \in Threads :
        pc[t] = "c_ok_drop_tree" =>
            LET dir    == DirectionOf(arg[t].is_outgoing)
                result == compress_packet(tree, Parsed(arg[t]), dir, rules)
                elided == ElidedBits(Fields(UsedRule(t)), Parsed(arg[t]), dir, 1)
                L      == UsedRule(t).rule_id_length
            IN  /\ result.compressed_header_bits
                      = L + result.original_header_bits - elided
                /\ elided >= L =>
                      /\ result.compressed_header_bits <= result.original_header_bits
                      /\ res[t].compressed_header_size <= res[t].original_header_size

\* C13 witness: a static rule that leaves out more than L bits was used
C13_Witness ==
    \E t \in Threads :
        /\ pc[t] = "c_ok_drop_tree" /\ IsStatic(UsedRule(t))
        /\ UsedRule(t).rule_id_length = 4
        /\ ElidedBits(Fields(UsedRule(t)), Parsed(arg[t]),
                      DirectionOf(arg[t].is_outgoing), 1) > 4
        /\ res[t].compressed_header_size < res[t].original_header_size

\* no compress or decompress call is in progress
Quiescent == \A t \in Threads : pc[t] \in {"idle", "panicked"}

\* C14: in every quiescent state the counters account for the completed
\* calls: compressed + failures = completed compress calls, decompressed +
\* failures = completed decompress calls, and the two totals are the sums of
\* the bit counts over the successful compressions
C14_CounterAccounting ==
    Quiescent =>
        /\ stats.packets_compressed + stats.compression_failures
              = hist.compress_calls
        /\ stats.packets_decompressed + stats.decompression_failures
              = hist.decompress_calls
        /\ stats.total_original_header_bits = hist.original_bits
        /\ stats.total_compressed_header_bits = hist.compressed_bits

\* C14 witness: quiescent after two interleaved successful compressions, a
\* failed compression or decompression among the completed calls
C14_Witness ==
    /\ Quiescent
    /\ stats.packets_compressed = 2
    /\ stats.compression_failures + stats.decompression_failures = 1
    /\ hist.compress_calls + hist.decompress_calls = 3
    /\ stats.total_original_header_bits > stats.total_compressed_header_bits

\* C15: every observe call adds exactly one to packets_processed, no step
\* of observe changes the observer's tree or rules, and packets_matched is
\* at most packets_processed in every state of concurrent observe calls
C15_ObserverOnlyMeasures ==
    /\ [](/\ obs_stats.packets_processed = obs_calls
          /\ obs_stats.packets_matched <= obs_stats.packets_processed)
    /\ [][/\ obs_tree' = obs_tree /\ obs_rules' = obs_rules
          /\ obs_stats'.packets_processed - obs_stats.packets_processed
                = obs_calls' - obs_calls]_vars

\* C15 witness: two observe calls in progress at once, one has matched and
\* the other has not yet, a third call has returned
C15_Witness ==
    /\ obs_pc[1] = "o_original" /\ obs_pc[2] = "o_pack"
    /\ obs_stats.packets_processed = 3
    /\ obs_stats.packets_matched = 2
    /\ obs_tree = build_tree(obs_rules)

\* C16: once every call has returned, the published tree is build_tree of
\* the published rule set
C16_QuiescentTreeOfRules ==
    Quiescent => tree = build_tree(rules)

TreeGuard(t) == t \in tree_lock.readers
RulesGuard(t) == t \in rules_lock.readers

\* acquisition order and extent of the read guards of a compress call
ReaderAcquires ==
    \A t \in Threads :
        /\ pc[t] = "c_tree" => ~TreeGuard(t) /\ ~RulesGuard(t)
        /\ pc[t] = "c_rules" => TreeGuard(t) /\ ~RulesGuard(t)
        /\ pc[t] \in {"c_pack", "c_ok_drop_tree", "c_err_drop_tree"}
              => TreeGuard(t) /\ RulesGuard(t)

\* C17 as stated: a compress call takes the tree read guard before the
\* rules read guard, holds both for the whole compress_packet call, and
\* releases the rules guard before the tree guard on either path
C17_ReaderGuardProtocol ==
    /\ []ReaderAcquires
    /\ [][\A t \in Threads :
            (TreeGuard(t) /\ ~(t \in tree_lock'.readers)) => ~RulesGuard(t)]_vars

\* C17 amended: same acquisition; the tree guard is released first and the
\* rules guard second, on the success and on the failure path, and both are
\* released before the call counts a failure, learns or returns
C17_ReaderGuardsTreeReleasedFirst ==
    /\ []ReaderAcquires
    /\ [](\A t \in Threads :
            /\ pc[t] \in {"c_ok_drop_rules", "c_err_drop_rules"}
                  => ~TreeGuard(t) /\ RulesGuard(t)
            /\ pc[t] \in {"c_err_count", "c_ret", "l_wrules", "l_wtree"}
                  => ~TreeGuard(t) /\ ~RulesGuard(t))
    /\ [][\A t \in Threads :
            /\ (RulesGuard(t) /\ ~(t \in rules_lock'.readers)) => ~TreeGuard(t)
            /\ (TreeGuard(t) /\ ~(t \in tree_lock'.readers)) => RulesGuard(t)]_vars

\* C17 witness: one call on the success path and one on the failure path,
\* each past the drop of its tree guard and still holding its rules guard
C17_Witness ==
    /\ pc[1] = "c_ok_drop_rules" /\ pc[2] = "c_err_drop_rules"
    /\ ~TreeGuard(1) /\ RulesGuard(1)
    /\ ~TreeGuard(2) /\ RulesGuard(2)

RulesWrite(t) == rules_lock.writer = t
TreeWrite(t) == tree_lock.writer = t
SessionGuard(t) == session_lock.writer = t \/ t \in session_lock.readers

\* C18: a thread that requests or holds the rules or tree write guard holds
\* no read guard on rules or tree and no guard on the QUIC session, never
\* holds both write guards, and an installation runs write(rules), mutate
\* and build the new tree, release rules, write(tree), swap, release tree
C18_WriterGuardProtocol ==
    /\ [](\A t \in Threads :
            /\ (RulesWrite(t) \/ TreeWrite(t))
                  => ~RulesGuard(t) /\ ~TreeGuard(t) /\ ~SessionGuard(t)
            /\ ~(RulesWrite(t) /\ TreeWrite(t))
            /\ TreeWrite(t) => new_tree[t] # {}
            /\ pc[t] \in {"c_ret", "idle"} => ~RulesWrite(t) /\ ~TreeWrite(t))
    /\ [][/\ rules' # rules =>
                \E t \in Threads : /\ RulesWrite(t) /\ rules_lock.readers = {}
                                   /\ new_tree[t] = {}
                                   /\ new_tree'[t] = build_tree(rules')
          /\ \A t \in Threads :
                (RulesWrite(t) /\ rules_lock'.writer # t)
                    => new_tree[t] = build_tree(rules) /\ tree' = tree
          /\ tree' # tree =>
                \E t \in Threads : /\ TreeWrite(t) /\ tree_lock.readers = {}
                                   /\ tree' = new_tree[t]
          /\ \A t \in Threads :
                (TreeWrite(t) /\ tree_lock'.writer # t) => tree = new_tree[t]
         ]_vars

\* C18 witness: one installer has the tree write guard and is about to swap
\* while another has the rules write guard and is about to mutate
C18_Witness ==
    /\ pc[1] = "l_swap" /\ TreeWrite(1) /\ tree_lock.readers = {}
    /\ pc[2] = "l_mutate" /\ RulesWrite(2) /\ rules_lock.readers = {}
    /\ new_tree[1] # {} /\ new_tree[2] = {}

\* indices of the rules that share no (rule id, L) with a rule of the batch
KeptIndices(rs, batch) ==
    {i \in 1..Len(rs) : \A j \in 1..Len(batch) : RuleKey(rs[i]) # RuleKey(batch[j])}

MatchedAtStart ==
    {a \in CompressInputs :
        /\ ~SyntheticPanics(a.payload, a.src, a.dst)
        /\ compress_packet(build_tree(RuleSetFromFile(rules_path)), Parsed(a),
                           DirectionOf(a.is_outgoing),
                           RuleSetFromFile(rules_path)).ok}

\* C20: after any sequence of dynamic rule installations, every packet that
\* a rule matched before them is still matched by the rebuilt tree
C20_RebuildKeepsMatchability ==
    Quiescent =>
        \A a \in MatchedAtStart :
            compress_packet(tree, Parsed(a), DirectionOf(a.is_outgoing), rules).ok

\* C21: for every packet compressed under a rule of the current rule set,
\* the rule-id scan of the decompressor over the same rule set selects that
\* rule; no rule of a shorter L whose id is a bit-prefix shadows it
C21_ScanPicksCompressingRule ==
    \A t \in Threads :
        pc[t] = "c_ok_drop_tree" =>
            /\ FindRule(rules, res[t].rule_id, res[t].rule_id_length) # 0
            /\ ScanRule(res[t].packet, rules)
                  = FindRule(rules, res[t].rule_id, res[t].rule_id_length)

\* the (rule id, L) keys of a rule set
Keys(rs) == {RuleKey(rs[i]) : i \in 1..Len(rs)}

\* C22: the set of (rule id, L) keys a reader can see under the rules read
\* guard never shrinks: no step removes a key, and no step changes the rule
\* set while a reader holds the guard, an installation that replaces the
\* rule of a key included
C22_KeysNeverShrink ==
    [][/\ Keys(rules) \subseteq Keys(rules')
       /\ (\E t \in Threads : RulesGuard(t)) => rules' = rules]_vars

\* C22 witness: a reader holds the rules read guard right after an
\* installation replaced the rule of a key of the rule file, the tree of the
\* installation not yet stored
C22_Witness ==
    \E t, u \in Threads :
        /\ pc[t] = "l_wtree" /\ pc[u] = "c_pack" /\ RulesGuard(u)
        /\ rules # RuleSetFromFile(rules_path)
        /\ Keys(rules) = Keys(RuleSetFromFile(rules_path))

IsDynamic(r) == r.pin # << >>

\* C23: a pool id assigned to a CID pair stays assigned to that pair and to
\* no other, and a dynamic rule of the rule set keeps its CID target values
\* under its (rule id, L) in every later rule set
C23_PoolIsOneWay ==
    /\ [](\A a, b \in quic_session.assigned :
              (a[1] = b[1] \/ a[2] = b[2]) => a = b)
    /\ [][/\ quic_session.assigned \subseteq quic_session'.assigned
          /\ \A i \in 1..Len(rules) : \A j \in 1..Len(rules') :
                (IsDynamic(rules[i]) /\ RuleKey(rules'[j]) = RuleKey(rules[i]))
                    => rules'[j].pin = rules[i].pin]_vars

\* C23 witness: two CID pairs hold two pool ids and both rules are installed
C23_Witness ==
    /\ Cardinality(quic_session.assigned) = 2
    /\ \A a \in quic_session.assigned :
          \E i \in 1..Len(rules) :
              /\ rules[i].rule_id = a[2] /\ rules[i].rule_id_length = DynRuleIdLength
              /\ rules[i].pin = a[1]
    /\ Quiescent

PoolSize == DynRuleEnd - DynRuleStart + 1

DynamicRules(rs) == {i \in 1..Len(rs) : IsDynamic(rs[i])}

PoolExhausted == quic_session.next_id > DynRuleEnd

UniqueKeys(rs) ==
    \A i, j \in 1..Len(rs) : RuleKey(rs[i]) = RuleKey(rs[j]) => i = j

\* C25: when the rule file has at most one rule per (rule id, L), the rule
\* set has at most one rule per (rule id, L) in every reachable state
C25_KeysStayUnique ==
    UniqueKeys(RuleSetFromFile(rules_path)) => UniqueKeys(rules)

\* C25 witness: an installation whose rule had the (rule id, L) of a rule of
\* the rule file has just written the rule set
C25_Witness ==
    \E t \in Threads :
        /\ pc[t] = "l_rel_wrules"
        /\ UniqueKeys(RuleSetFromFile(rules_path))
        /\ \E i \in 1..Len(RuleSetFromFile(rules_path)) :
              RuleKey(RuleSetFromFile(rules_path)[i]) = RuleKey(new_rules[t][1])
        /\ Cardinality({i \in 1..Len(rules) :
                           RuleKey(rules[i]) = RuleKey(new_rules[t][1])}) = 1

\* C26: a CID pair gets at most one pool id and at most one dynamic rule,
\* also when several threads compress packets of the same new pair at the
\* same time; interning and generation happen under the session write guard
C26_OneRulePerPair ==
    /\ \A a, b \in quic_session.assigned : a[1] = b[1] => a = b
    /\ quic_session.some =>
          quic_session.next_id - DynRuleStart = Cardinality(quic_session.assigned)
    /\ \A t, u \in Threads :
          (t # u /\ new_rules[t] # << >> /\ new_rules[u] # << >>)
              => new_rules[t][1].pin # new_rules[u][1].pin
    /\ \A i, j \in DynamicRules(rules) : rules[i].pin = rules[j].pin => i = j
    /\ \A t \in Threads : \A i \in DynamicRules(rules) :
          (new_rules[t] # << >> /\ rules[i].pin = new_rules[t][1].pin)
              => rules[i] = new_rules[t][1]
    /\ \A t \in Threads :
          pc[t] \in {"l_update", "l_drop_sess", "l_end_drop_sess"}
              => session_lock.writer = t

\* C26 witness: two calls carry the same CID pair, new to both when they
\* were compressed; one has generated its rule and still holds the session
\* guard, the other waits for the guard
C26_Witness ==
    \E t, u \in Threads :
        /\ pc[t] = "l_drop_sess" /\ pc[u] = "l_sess"
        /\ PairOf[arg[t]] = PairOf[arg[u]]
        /\ new_rules[t] # << >>
        /\ Cardinality(quic_session.assigned) = 1

\* C27: the base rule that try_learn_quic_cids finds under the rule id and
\* length of the result is the rule that compress_packet matched for the
\* packet
C27_BaseRuleIsMatchedRule ==
    \A t \in Threads :
        pc[t] \in {"l_sess", "l_update"} =>
            /\ FindRule(rules, res[t].rule_id, res[t].rule_id_length) # 0
            /\ << rules[FindRule(rules, res[t].rule_id, res[t].rule_id_length)] >>
                  = note[t].matched

\* ---- C28: learning is triggered only by a successful compression with the
\* feature enabled. Built with dynamic_quic_rules = false, the compressor has
\* no session and its rule set and tree stay the ones of construction; built
\* with it enabled, a compress call is inside try_learn_quic_cids only after
\* its compression succeeded, and when the call returns it has entered
\* try_learn_quic_cids exactly once if it succeeded and never if it failed.
LearnPcs == {"l_rules", "l_sess", "l_update", "l_drop_sess", "l_drop_rules", "l_wrules",
             "l_wrules_wait", "l_wrules_drain", "l_mutate", "l_rel_rules",
             "l_rel_wrules", "l_wtree", "l_wtree_wait", "l_wtree_drain", "l_swap",
             "l_rel_tree", "l_rel_wtree", "l_end_drop_sess", "l_end_drop_rules"}

C28_LearnOnlyAfterSuccess ==
    /\ [](/\ quic_session.some = dynamic
          /\ ~dynamic => /\ rules = RuleSetFromFile(rules_path)
                          /\ tree = build_tree(rules)
          /\ \A t \in Threads :
                /\ pc[t] \in LearnPcs =>
                      dynamic /\ arg[t].op = "compress" /\ res[t].success
                              /\ note[t].learns = 1
                /\ pc[t] = "c_ret" =>
                      note[t].learns = IF dynamic /\ res[t].success THEN 1 ELSE 0)
    /\ [][~dynamic => rules' = rules /\ tree' = tree /\ quic_session' = quic_session]_vars

C28_Witness ==
    /\ dynamic
    /\ \E t, u \in Threads :
          /\ pc[t] = "c_ret" /\ res[t].success /\ note[t].learns = 1
          /\ pc[u] = "c_ret" /\ ~res[u].success /\ note[u].learns = 0

C28_WitnessDisabled ==
    /\ ~dynamic
    /\ \E t \in Threads : pc[t] = "c_ret" /\ res[t].success /\ note[t].learns = 0

\* ---- C29: decompress is read-only on rule state. A decompress call holds
\* the rules read guard between its rules.read() and its return and no other
\* guard, read or write; a step of a decompress call leaves the rule set,
\* the tree, the QUIC session and the locks of tree and session as they are
\* and changes the rules lock only in its own read guard; and a compressor
\* that has only decompressed has the rule set of its rule file, the tree
\* of that rule set, no dynamic rule and the session of construction.
DecompressPcs == {"d_rules", "d_unpack", "d_drop", "d_ret"}

DecompressStep(t) == pc[t] \in DecompressPcs /\ pc'[t] # pc[t]

OnlyDecompresses ==
    /\ hist.compress_calls = 0
    /\ \A t \in Threads : arg[t].op # "compress" /\ ~note[t].loop

C29_DecompressReadOnly ==
    /\ [](\A t \in Threads : pc[t] \in DecompressPcs =>
            /\ RulesGuard(t) <=> pc[t] \in {"d_unpack", "d_drop"}
            /\ ~TreeGuard(t) /\ ~SessionGuard(t)
            /\ ~RulesWrite(t) /\ ~TreeWrite(t))
    /\ [](OnlyDecompresses =>
            /\ rules = RuleSetFromFile(rules_path)
            /\ tree = build_tree(rules)
            /\ DynamicRules(rules) = {}
            /\ quic_session = SessionFor(dynamic))
    /\ [][\A t \in Threads : DecompressStep(t) =>
            /\ rules' = rules /\ tree' = tree /\ quic_session' = quic_session
            /\ tree_lock' = tree_lock /\ session_lock' = session_lock
            /\ rules_lock'.writer = rules_lock.writer
            /\ rules_lock'.readers \ {t} = rules_lock.readers \ {t}
            /\ new_rules' = new_rules /\ new_tree' = new_tree]_vars

C29_Witness ==
    /\ dynamic /\ OnlyDecompresses
    /\ hist.decompress_calls >= 1
    /\ \E t \in Threads : pc[t] = "d_ret" /\ res[t].success

\* ---- Synthetic framing on its own: the inputs are drawn at the start and
\* each builder is applied to them
MaxLen == 12

\* the longest payload the working buffer takes
FitLen == BufferLen - IpHeaderLen - UdpHeaderLen

FrameLens == (0..MaxLen) \cup ((FitLen - 1)..(FitLen + 1))

FramePayload(n, fill) == [i \in 1..n |-> (fill + i * fill) % 256]

FrameInputs ==
    { [op |-> "frame", payload |-> FramePayload(n, fill), src |-> a[1], dst |-> a[2],
       is_outgoing |-> TRUE] :
        n \in FrameLens, fill \in {1, 255},
        a \in {<< Client, Server >>, << Server, Client >>, << ClientV6, Server >>} }

FrameInit ==
    /\ rules_path = "plain" /\ dynamic = FALSE
    /\ obs_rules = RuleSetFromFile(rules_path)
    /\ obs_tree = build_tree(obs_rules)
    /\ obs_stats = ZeroObsStats
    /\ obs_pc = [t \in Threads |-> "idle"]
    /\ obs_res = [t \in Threads |-> NoObsRes]
    /\ obs_calls = 0
    /\ rules = RuleSetFromFile(rules_path)
    /\ tree = build_tree(rules)
    /\ quic_session = SessionFor(dynamic)
    /\ stats = ZeroStats
    /\ tree_lock = FreeLock /\ rules_lock = FreeLock /\ session_lock = FreeLock
    /\ pc = [t \in Threads |-> "idle"]
    /\ \E a \in FrameInputs :
          /\ arg = [t \in Threads |-> a]
          /\ obs_arg = [t \in Threads |-> a]
    /\ res = [t \in Threads |-> NoRes]
    /\ note = [t \in Threads |-> NoNote]
    /\ new_rules = [t \in Threads |-> << >>]
    /\ new_tree = [t \in Threads |-> {}]
    /\ calls = 0
    /\ hist = NoHist

\* let synthetic_packet = self.build_synthetic_packet(...) of compress
CompressorBuild(t) ==
    /\ pc[t] = "idle"
    /\ IF SyntheticPanics(arg[t].payload, arg[t].src, arg[t].dst)
       THEN /\ pc' = [pc EXCEPT ![t] = "panicked"]
            /\ UNCHANGED res
       ELSE /\ pc' = [pc EXCEPT ![t] = "f_built"]
            /\ res' = [res EXCEPT ![t] =
                         [frame |-> build_synthetic_packet(arg[t].payload, arg[t].src,
                                                           arg[t].dst)]]
    /\ UNCHANGED << observer, config, shared, stats, locks, arg, new_rules, new_tree,
                    calls, note, hist >>

\* let synthetic_packet = self.build_synthetic_packet(...) of observe
ObserverBuild(t) ==
    /\ obs_pc[t] = "idle"
    /\ IF SyntheticPanics(obs_arg[t].payload, obs_arg[t].src, obs_arg[t].dst)
       THEN /\ obs_pc' = [obs_pc EXCEPT ![t] = "panicked"]
            /\ UNCHANGED obs_res
       ELSE /\ obs_pc' = [obs_pc EXCEPT ![t] = "f_built"]
            /\ obs_res' = [obs_res EXCEPT ![t] =
                             [frame |-> observer_build_synthetic_packet(
                                            obs_arg[t].payload, obs_arg[t].src,
                                            obs_arg[t].dst)]]
    /\ UNCHANGED << facade, obs_tree, obs_rules, obs_stats, obs_arg, obs_calls >>

FrameNext == \E t \in Threads : CompressorBuild(t) \/ ObserverBuild(t)

FrameSpec == FrameInit /\ [][FrameNext]_vars

\* the frame the claim describes, field by field, for a payload
FramedAs(f, payload) ==
    /\ Len(f) = 42 + Len(payload)
    /\ SubSeq(f, 1, 12) = << 0, 0, 0, 0, 0, 0, 0, 0, 0, 0, 0, 0 >>
    /\ f[13] = 8 /\ f[14] = 0
    /\ f[15] \div 16 = 4 /\ f[15] % 16 = 5
    /\ f[17] * 256 + f[18] = 28 + Len(payload)
    /\ (f[21] \div 32) = 2
    /\ f[23] = 64
    /\ f[24] = 17
    /\ f[39] * 256 + f[40] = 8 + Len(payload)
    /\ SubSeq(f, 43, Len(f)) = payload

\* ---- C30: for every payload of n bytes that fits the working buffer
\* (28 + n <= 2000) and IPv4 addresses each builder returns, and the frame it
\* returns has 42 + n bytes: zero MACs and ethertype 0x0800, an IPv4 header
\* with version 4, IHL 5, DF, TTL 64, protocol 17 and total length 28 + n, a
\* UDP header with length 8 + n, and the payload at offset 42; the
\* compressor's frame and the observer's frame of the same input are equal;
\* and the two lengths are the ones computed without reduction modulo 2^16.
C30_SyntheticFraming ==
    /\ \A t \in Threads :
          /\ pc[t] = "f_built" => FramedAs(res[t].frame, arg[t].payload)
          /\ obs_pc[t] = "f_built" => FramedAs(obs_res[t].frame, obs_arg[t].payload)
          /\ pc[t] = "panicked" =>
                ~arg[t].src.v4 \/ ~arg[t].dst.v4 \/ Len(arg[t].payload) > FitLen
          /\ obs_pc[t] = "panicked" =>
                ~obs_arg[t].src.v4 \/ ~obs_arg[t].dst.v4
                    \/ Len(obs_arg[t].payload) > FitLen
    /\ \A t, u \in Threads :
          pc[t] = "f_built" /\ obs_pc[u] = "f_built" /\ arg[t] = obs_arg[u]
              => res[t].frame = obs_res[u].frame
    /\ \A t \in Threads :
          arg[t].op = "frame" /\ Len(arg[t].payload) <= FitLen =>
              /\ ObserverUdpLength(arg[t].payload) = 8 + Len(arg[t].payload)
              /\ ObserverIpLength(ObserverUdpLength(arg[t].payload))
                    = 28 + Len(arg[t].payload)

C30_Witness ==
    \E t, u \in Threads :
        /\ pc[t] = "f_built" /\ obs_pc[u] = "f_built"
        /\ arg[t] = obs_arg[u]
        /\ Len(arg[t].payload) = FitLen
        /\ res[t].frame = obs_res[u].frame
        /\ Len(res[t].frame) = 42 + FitLen

====
